---- MODULE Spec2Model ----
(***************************************************************************)
(* electron-text-substitutions: the renderer-side substitution engine of   *)
(* src/src/index.js with the pattern compiler of                           *)
(* src/src/regular-expressions.js, the key classification of               *)
(* src/src/text-substitution.js and the SerialSubscription of              *)
(* src/src/serial-subscription.js.                                         *)
(*                                                                         *)
(* A text is a sequence of characters; a character is a string naming it  *)
(* ("a", " ", ".", and DQUOTE, TAB, LF, CR, LDQUO, MDASH, ... for the ones *)
(* that are written by name).  Offsets are 0-based as in the source, so    *)
(* the character at offset k of a text s is s[k+1].                        *)
(***************************************************************************)
EXTENDS Integers, Sequences, FiniteSets, TLC

(***************************************************************************)
(* Bounds of the model.                                                    *)
(***************************************************************************)
MaxLen == 4          \* buffer length the host types up to, typing sessions
MaxInput == 2        \* characters one input event inserts, typing sessions
MaxText == 2         \* buffer length the host types up to, attach sessions
MaxAttach == 2       \* successful calls of performTextSubstitution
MaxPrefChanges == 1  \* preference-changed messages
StackLimit == 4      \* nested edits before the call stack is exhausted
MaxCandidate == 4    \* length of a text a pattern is tried on directly
MaxTrigger == 2      \* length of the trigger of such a pattern
MaxEntries == 2      \* entries of the user dictionary, rule-set sessions
MaxDashText == 7     \* length of a text the smart-dash rules are applied to
MaxTyped == 5        \* characters typed one by one, prefix sessions
MaxScrubText == 4    \* length of a text the smart rules are applied to
MaxWebContents == 2  \* WebContents of the application
MaxNotified == 2     \* preference-changed messages one WebContents is sent

(***************************************************************************)
(* Character classes of the regular expressions.                           *)
(***************************************************************************)
WhitespaceChars == {" ", "TAB", "LF", "CR"}

WordChars ==
  {"a", "b", "c", "d", "e", "f", "g", "h", "i", "j", "k", "l", "m",
   "n", "o", "p", "q", "r", "s", "t", "u", "v", "w", "x", "y", "z",
   "A", "B", "C", "D", "E", "F", "G", "H", "I", "J", "K", "L", "M",
   "N", "O", "P", "Q", "R", "S", "T", "U", "V", "W", "X", "Y", "Z",
   "0", "1", "2", "3", "4", "5", "6", "7", "8", "9", "_"}

openingSingleQuote == "LSQUO"
closingSingleQuote == "RSQUO"
openingDoubleQuote == "LDQUO"
closingDoubleQuote == "RDQUO"
emDash == "MDASH"
ellipsis == "HELLIP"

wordBoundary ==
  {" ", "LF", "CR", "TAB", ".", ",", ":", ";", "|", "{", "}", "(", ")",
   "<", ">", "'", "DQUOTE", "BACKTICK", "+", "!", "?", "LAQUO", "RAQUO",
   openingDoubleQuote, closingDoubleQuote, openingSingleQuote,
   closingSingleQuote, "LSAQUO", "RSAQUO", emDash, "NDASH", "MINUS", "-"}

\* One character class of a pattern: "B" the word boundary class, "w" \w,
\* "W" \W, "s" \s, "S" \S, "any" [\S\s], "ws" [\w\s], and "not-", "not." for
\* [^-] and [^.].
ClassHolds(c, class, word, space, boundary) ==
  CASE class = "B" -> boundary
    [] class = "w" -> word
    [] class = "W" -> ~word
    [] class = "s" -> space
    [] class = "S" -> ~space
    [] class = "any" -> TRUE
    [] class = "ws" -> word \/ space
    [] class = "not-" -> c # "-"
    [] class = "not." -> c # "."
    [] OTHER -> FALSE

InClass(c, class) ==
  ClassHolds(c, class, c \in WordChars, c \in WhitespaceChars, c \in wordBoundary)

(***************************************************************************)
(* Text helpers (String.prototype.substring, trimRight).                   *)
(***************************************************************************)
Clamp(n, len) == IF n < 0 THEN 0 ELSE IF n > len THEN len ELSE n

Slice(s, lo, hi) == [k \in 1..(hi - lo) |-> s[lo + k]]

\* String.prototype.substring: both offsets are clamped to the text, and
\* swapped when the first is the larger.
substring(s, from, to) ==
  IF Clamp(from, Len(s)) <= Clamp(to, Len(s))
  THEN Slice(s, Clamp(from, Len(s)), Clamp(to, Len(s)))
  ELSE Slice(s, Clamp(to, Len(s)), Clamp(from, Len(s)))

MinOf(S) == CHOOSE x \in S : \A y \in S : x <= y
MaxOf(S) == CHOOSE x \in S : \A y \in S : y <= x

KeepUpTo(s, keep) == IF keep = {} THEN <<>> ELSE substring(s, 0, MaxOf(keep))

trimRight(s) == KeepUpTo(s, {k \in 1..Len(s) : s[k] \notin WhitespaceChars})

(***************************************************************************)
(* A compiled pattern is (left)core(right): left and right are the         *)
(* alternatives of the two capture groups in the order the pattern lists   *)
(* them, core the literal text between them.  An alternative is "^" (start *)
(* of input), "" (the empty group), a character class, or "w+W" (\w+\W).   *)
(***************************************************************************)
NoMatch == [found |-> FALSE, index |-> 0, all |-> <<>>, left |-> <<>>, right |-> <<>>]

\* Length of \w+\W at offset i (1-based), or -1: stops are the offsets from
\* i on that hold no word character.
WordRun(stops, i) ==
  IF stops = {} \/ MinOf(stops) = i THEN -1 ELSE MinOf(stops) - i + 1

\* Length consumed by a group alternative at offset i (1-based), or -1.
AltLen(alt, w, i) ==
  CASE alt = "^" -> IF i = 1 THEN 0 ELSE -1
    [] alt = "" -> 0
    [] alt = "w+W" -> WordRun({k \in i..Len(w) : w[k] \notin WordChars}, i)
    [] OTHER -> IF i <= Len(w) /\ InClass(w[i], alt) THEN 1 ELSE -1

CoreAt(core, w, i) ==
  /\ i + Len(core) - 1 <= Len(w)
  /\ \A k \in 1..Len(core) : w[i + k - 1] = core[k]

\* Length of the first alternative of a group, in the order the pattern
\* lists them, that matches at offset i, or -1: ok are the ones that match.
FirstLen(alts, w, i, ok) ==
  IF ok = {} THEN -1 ELSE AltLen(alts[MinOf(ok)], w, i)

RightLen(alts, w, i) ==
  FirstLen(alts, w, i, {r \in 1..Len(alts) : AltLen(alts[r], w, i) >= 0})

\* The match array: left group of length ll at offset i, right group of
\* length rl at offset rs.
Captured(w, i, ll, rs, rl) ==
  IF rl < 0 THEN NoMatch
  ELSE [found |-> TRUE,
        index |-> i - 1,
        all   |-> substring(w, i - 1, rs - 1 + rl),
        left  |-> substring(w, i - 1, i - 1 + ll),
        right |-> substring(w, rs - 1, rs - 1 + rl)]

MatchLeft(regExp, w, i, ll) ==
  IF ll < 0 \/ ~CoreAt(regExp.core, w, i + ll) THEN NoMatch
  ELSE Captured(w, i, ll, i + ll + Len(regExp.core),
                RightLen(regExp.right, w, i + ll + Len(regExp.core)))

\* The match at offset i whose left group takes its la-th alternative.
MatchAlt(regExp, w, i, la) ==
  MatchLeft(regExp, w, i, AltLen(regExp.left[la], w, i))

FirstMatch(regExp, w, i, ok) ==
  IF ok = {} THEN NoMatch ELSE MatchAlt(regExp, w, i, MinOf(ok))

\* The match of the pattern that starts at offset i (1-based), trying the
\* alternatives of each group in order as a backtracking matcher does.
MatchAt(regExp, w, i) ==
  FirstMatch(regExp, w, i,
             {la \in 1..Len(regExp.left) : MatchAlt(regExp, w, i, la).found})

LeftmostMatch(regExp, w, starts) ==
  IF starts = {} THEN NoMatch ELSE MatchAt(regExp, w, MinOf(starts))

\* String.prototype.match with a pattern without the g flag: the leftmost
\* match, with its index and the two captured groups.
StringMatch(w, regExp) ==
  LeftmostMatch(regExp, w, {i \in 1..Len(w) : MatchAt(regExp, w, i).found})

\* A test for a leading boundary character that never succeeds.
startsWithWordBoundaryNever(match) == FALSE

startsWithWordBoundary(match) == Len(match) > 0 /\ match[1] \in wordBoundary
endsWithWordBoundary(match) == Len(match) > 0 /\ match[Len(match)] \in wordBoundary

\* A pattern whose left group does not accept the start of input.
getSubstitutionRegExpNoStart(match, replacement) ==
  LET startOfInputOrBoundary ==
        IF startsWithWordBoundary(match) THEN <<"">> ELSE <<"B">>
      wordCharacterOrBoundary ==
        IF endsWithWordBoundary(match) THEN <<"w", "B">> ELSE <<"B">>
  IN  [hasMatch |-> TRUE,
       match |-> match,
       regExp |-> [left |-> startOfInputOrBoundary, core |-> match,
                   right |-> wordCharacterOrBoundary],
       replacement |-> replacement]

getSubstitutionRegExp(match, replacement) ==
  LET startOfInputOrBoundary ==
        IF startsWithWordBoundary(match) THEN <<"">> ELSE <<"^", "B">>
      wordCharacterOrBoundary ==
        IF endsWithWordBoundary(match) THEN <<"w", "B">> ELSE <<"B">>
  IN  [hasMatch |-> TRUE,
       match |-> match,
       regExp |-> [left |-> startOfInputOrBoundary, core |-> match,
                   right |-> wordCharacterOrBoundary],
       replacement |-> replacement]

SmartItem(left, core, right, replacement) ==
  [hasMatch |-> FALSE, match |-> <<>>,
   regExp |-> [left |-> left, core |-> core, right |-> right],
   replacement |-> <<replacement>>]

\* Smart-quote rules that try the opening double quote first.
getSmartQuotesRegExpOpeningFirst ==
  << SmartItem(<<"">>, <<"DQUOTE">>, <<"any">>, openingDoubleQuote),
     SmartItem(<<"S">>, <<"DQUOTE">>, <<"any">>, closingDoubleQuote),
     SmartItem(<<"any">>, <<"'">>, <<"W">>, closingSingleQuote),
     SmartItem(<<"W", "^">>, <<"'">>, <<"ws">>, openingSingleQuote),
     SmartItem(<<"w">>, <<"'">>, <<"w+W">>, closingSingleQuote) >>

getSmartQuotesRegExp ==
  << SmartItem(<<"S">>, <<"DQUOTE">>, <<"any">>, closingDoubleQuote),
     SmartItem(<<"">>, <<"DQUOTE">>, <<"any">>, openingDoubleQuote),
     SmartItem(<<"any">>, <<"'">>, <<"W">>, closingSingleQuote),
     SmartItem(<<"W", "^">>, <<"'">>, <<"ws">>, openingSingleQuote),
     SmartItem(<<"w">>, <<"'">>, <<"w+W">>, closingSingleQuote) >>

\* Smart-dash rules without the rule for three hyphens.
getSmartDashesRegExpNoTriple ==
  << SmartItem(<<"^", "not-">>, <<"-", "-">>, <<"not-">>, emDash),
     SmartItem(<<"^", "not.">>, <<".", ".", ".">>, <<"not.">>, ellipsis) >>

getSmartDashesRegExp ==
  << SmartItem(<<"^", "not-">>, <<"-", "-", "-">>, <<"not-">>, emDash),
     SmartItem(<<"^", "not-">>, <<"-", "-">>, <<"not-">>, emDash),
     SmartItem(<<"^", "not.">>, <<".", ".", ".">>, <<"not.">>, ellipsis) >>

\* formatReplacement without the right boundary.
formatReplacementDropsRight(match, replacement) ==
  match.left \o replacement

formatReplacement(match, replacement) ==
  match.left \o replacement \o match.right

\* A replace whose replacement string ends after the replacement, `$1${replacement}`.
ReplacedDropsRight(output, item, m) ==
  IF ~m.found THEN output
  ELSE substring(output, 0, m.index)
         \o m.left \o item.replacement
         \o substring(output, m.index + Len(m.all), Len(output))

Replaced(output, item, m) ==
  IF ~m.found THEN output
  ELSE substring(output, 0, m.index)
         \o formatReplacement(m, item.replacement)
         \o substring(output, m.index + Len(m.all), Len(output))

\* output.replace(regExp, `$1${replacement}$2`): the first match only.
ReplaceFirst(output, item) ==
  Replaced(output, item, StringMatch(output, item.regExp))

RECURSIVE scrubFrom(_, _, _)
scrubFrom(output, items, k) ==
  IF k > Len(items) THEN output
  ELSE scrubFrom(ReplaceFirst(output, items[k]), items, k + 1)

scrubInputString(input, items) == scrubFrom(input, items, 1)

\* Array.prototype.sort((a, b) => b.replace.length - a.replace.length):
\* non-increasing trigger length, equal lengths in their original order.
RECURSIVE sortByLength(_, _)
sortByLength(s, n) ==
  IF n < 0 THEN <<>>
  ELSE SelectSeq(s, LAMBDA e : Len(e.replace) = n) \o sortByLength(s, n - 1)

LongestTrigger(s) == MaxOf({0} \cup {Len(s[k].replace) : k \in 1..Len(s)})

\* A filter that does not look at the on property.
KeepSubstitutionIgnoresOn(substitution) ==
  substitution.replace # substitution.with

KeepSubstitution(substitution) ==
  substitution.on # "false" /\ substitution.replace # substitution.with

additionalReplacements(prefs) ==
  (IF prefs.useSmartQuotes THEN getSmartQuotesRegExp ELSE <<>>)
    \o (IF prefs.useSmartDashes THEN getSmartDashesRegExp ELSE <<>>)

\* A sort that leaves the entries in their order.
sortSubstitutionsKeepsOrder(kept) == kept

sortSubstitutions(kept) == sortByLength(kept, LongestTrigger(kept))

\* Matchers that hold the replacement as the entry gives it.
userDictionaryReplacementsUnscrubbed(sorted, additional) ==
  [k \in 1..Len(sorted) |->
     getSubstitutionRegExp(sorted[k].replace, sorted[k].with)]

userDictionaryReplacements(sorted, additional) ==
  [k \in 1..Len(sorted) |->
     getSubstitutionRegExp(sorted[k].replace,
                           scrubInputString(sorted[k].with, additional))]

getReplacementItems(prefs) ==
  userDictionaryReplacements(
      sortSubstitutions(SelectSeq(prefs.substitutions, KeepSubstitution)),
      additionalReplacements(prefs))
    \o additionalReplacements(prefs)

\* whitespace.lastIndex of the last whitespace of the text, or 0.
LastWhitespace(ws) == IF ws = {} THEN 0 ELSE MaxOf(ws)

WhitespaceIn(textToCaret) ==
  LastWhitespace({k \in 1..Len(textToCaret) : textToCaret[k] \in WhitespaceChars})

\* A lastIndexOfWhitespace that stops at the first whitespace.
lastIndexOfWhitespaceFirst(value, fromIndex) ==
  LET textToCaret == trimRight(substring(value, 0, fromIndex))
      ws == {k \in 1..Len(textToCaret) : textToCaret[k] \in WhitespaceChars}
  IN  IF ws = {} THEN 0 ELSE MinOf(ws)

lastIndexOfWhitespace(value, fromIndex) ==
  WhitespaceIn(trimRight(substring(value, 0, fromIndex)))

(***************************************************************************)
(* Preferences, elements and key events the environment supplies.          *)
(***************************************************************************)
\* A TextSubstitution; on is "true", "false", or "undefined" when the entry
\* has no such property.
Entry(replace, with, on) == [replace |-> replace, with |-> with, on |-> on]

Substitution(replace, with) == Entry(replace, with, "true")

SingleRule == <<Substitution(<<"a">>, <<"b">>)>>
CycleRules == <<Substitution(<<"a">>, <<"b">>), Substitution(<<"b">>, <<"a">>)>>
EraseRules == <<Substitution(<<".">>, <<>>), Substitution(<<"a">>, <<"b">>)>>
NestedRules == <<Substitution(<<"a">>, <<"b">>), Substitution(<<"a", ".">>, <<"b">>)>>

\* Two rules, the shorter trigger a prefix of the longer: the longer is the
\* shorter and one boundary character, the shorter and more than that, or
\* the shorter and a word character.
DeferredRules == <<Substitution(<<"a">>, <<"b">>), Substitution(<<"a", ".">>, <<"c">>)>>
PendingRules == <<Substitution(<<"a">>, <<"b">>), Substitution(<<"a", ".", "a">>, <<"c">>)>>
DoubledRules == <<Substitution(<<"a">>, <<"b">>), Substitution(<<"a", "a">>, <<"c">>)>>

Preferences(substitutions) ==
  [substitutions |-> substitutions, useSmartQuotes |-> FALSE,
   useSmartDashes |-> FALSE]

\* The preferences of typing sessions, and those of attach sessions.
PrefChoices ==
  {Preferences(substitutions) :
     substitutions \in {SingleRule, CycleRules, EraseRules, NestedRules}}

\* Rules whose trigger holds a whitespace and a later non-whitespace: in
\* the middle of a word pair, and at the start of the trigger with an
\* ordinary rule for the same word after it.
SpacedRule == <<Substitution(<<"a", " ", "a">>, <<"c">>)>>
LeadingSpaceRules ==
  <<Substitution(<<" ", "a">>, <<"c">>), Substitution(<<"a">>, <<"b">>)>>

SpacedPrefs == {Preferences(SpacedRule), Preferences(LeadingSpaceRules)}

\* The preferences of prefix sessions.
PrefixPrefs ==
  {Preferences(substitutions) :
     substitutions \in {DeferredRules, PendingRules, DoubledRules}}

AttachPrefs == {Preferences(SingleRule), Preferences(CycleRules)}

\* The entries of rule-set sessions: enabled, disabled and without the on
\* property, with a trigger equal to the replacement, with a longer and
\* with an empty trigger, with a quote and hyphens in the replacement.
BuildEntries ==
  {Entry(<<"a">>, <<"b">>, "true"),
   Entry(<<"a">>, <<"b">>, "false"),
   Entry(<<"a">>, <<"c">>, "undefined"),
   Entry(<<"a">>, <<"a">>, "true"),
   Entry(<<"a", ".">>, <<"b">>, "true"),
   Entry(<<>>, <<"b">>, "true"),
   Entry(<<"a">>, <<"DQUOTE", "-", "-", "b">>, "true")}

BuildPrefs ==
  [substitutions : UNION {[1..n -> BuildEntries] : n \in 0..MaxEntries},
   useSmartQuotes : BOOLEAN,
   useSmartDashes : BOOLEAN]

TypedChars == {"a", " ", "."}

\* The characters typed in quote sessions, and their preferences: no user
\* entries, smart quotes enabled.
QuoteChars == {"a", " ", "DQUOTE"}

QuotePrefs ==
  [substitutions : {<<>>}, useSmartQuotes : {TRUE}, useSmartDashes : BOOLEAN]

\* The characters of the texts the smart-dash rules are applied to.
DashChars == {"-", "a", " "}

\* The characters of the texts the smart rules are applied to together,
\* and the preferences that enable them: no user entry.
ScrubChars == {"DQUOTE", "'", "-", ".", "a", " "}

SmartPrefs ==
  [substitutions : {<<>>}, useSmartQuotes : BOOLEAN, useSmartDashes : BOOLEAN]

\* The characters of the texts patterns are tried on, and those texts.
CandidateChars == {"a", "b", " ", "."}

Texts(shortest, longest) ==
  UNION {[1..n -> CandidateChars] : n \in shortest..longest}

\* What performTextSubstitution can be handed as its element: null, an
\* object without addEventListener, or the input element.
ElementArgs == {"null", "object", "input"}

keyCodes == [y |-> 89, z |-> 90, Z |-> 122, backspace |-> 8, delete |-> 46]

KeyEvent(keyCode, metaKey, ctrlKey, shiftKey, altKey) ==
  [keyCode |-> keyCode, metaKey |-> metaKey, ctrlKey |-> ctrlKey,
   shiftKey |-> shiftKey, altKey |-> altKey]

KeyEvents ==
  {KeyEvent(keyCodes.z, TRUE, FALSE, FALSE, FALSE),
   KeyEvent(keyCodes.backspace, FALSE, FALSE, FALSE, FALSE),
   KeyEvent(65, FALSE, FALSE, FALSE, FALSE)}

\* The keys and modifiers of the keydown events of key sessions: Z, F11
\* (whose key code is keyCodes.Z), Y, backspace, delete and A.
KeyCombinations ==
  [keyCode : {keyCodes.z, keyCodes.Z, keyCodes.y, keyCodes.backspace,
              keyCodes.delete, 65},
   metaKey : BOOLEAN, ctrlKey : BOOLEAN, shiftKey : BOOLEAN, altKey : BOOLEAN]

EventTypes == {"compositionstart", "compositionend", "keydown", "paste", "keyup", "input"}

(***************************************************************************)
(* State.                                                                  *)
(***************************************************************************)
VARIABLES
  process,            \* [type, platform] of the running process
  hasGetUserDefault,  \* systemPreferences.getUserDefault exists
  sysPrefs,           \* the system text preferences
  value,              \* element.value
  selectionStart,     \* element.selectionStart
  selectionEnd,       \* element.selectionEnd
  listeners,          \* listeners of the element: <<type, listener set, capture>>
  sets,               \* closures of addInputListener, by listener set id
  subs,               \* the SerialSubscription handles returned, by attach id
  ipcListeners,       \* preference-changed listeners on ipcRenderer (attach ids)
  sentRegister,       \* register messages sent to the main process
  replacementItems,   \* the module-level cached rule set
  prefChanges,        \* preference-changed messages handled so far
  event,              \* the last operation, when it was an input or
                      \* compositionend event; "none" otherwise
  thrown,             \* the error the last operation threw, or "none"
  before,             \* buffer and caret when the last event's listeners started
  edits,              \* the edits the listeners issued during the last event
  nesting,            \* deepest nesting of one listener's matching loop in it
  tested,             \* the last direct use of a pattern and what it returned
  last,               \* the log of the element's last event, where one is kept
  registeredWebContents,  \* main process: ids of the WebContents registered
  webContents         \* the WebContents: destroyed, crashed, messages sent and received

vars == <<process, hasGetUserDefault, sysPrefs, value, selectionStart,
          selectionEnd, listeners, sets, subs, ipcListeners, sentRegister,
          replacementItems, prefChanges, event, thrown, before, edits, nesting,
          tested, last, registeredWebContents, webContents>>

envVars == <<process, hasGetUserDefault, registeredWebContents, webContents>>
attachVars == <<listeners, subs, ipcListeners, sentRegister, replacementItems>>

\* No key: the key of an event that is not a keydown.
NoKey == KeyEvent(0, FALSE, FALSE, FALSE, FALSE)

\* No pattern was used and no key classified directly.
NoTest ==
  [applied |-> FALSE, match |-> <<>>, candidate |-> <<>>, result |-> NoMatch,
   output |-> <<>>, key |-> NoKey, undoRedo |-> FALSE, backspace |-> FALSE]

\* The log of a session that keeps none, and the log of one that does
\* before the first event: key sessions log the name of the last event of
\* the element, the key of a keydown and the listener sets as they were
\* when the event arrived.
NoLast == [on |-> FALSE, name |-> "none", key |-> NoKey, was |-> <<>>]
NoneYet == [on |-> TRUE, name |-> "none", key |-> NoKey, was |-> <<>>]

Logged(name, e) ==
  IF last.on THEN [on |-> TRUE, name |-> name, key |-> e, was |-> sets] ELSE last

WebContentsIds == 1..MaxWebContents

\* A WebContents that sent and received nothing.
NewWebContents ==
  [destroyed |-> FALSE, crashed |-> FALSE, asked |-> FALSE, left |-> FALSE,
   received |-> <<>>]

\* The program's state before the first call, the system preferences being
\* prefs.
Constructed(prefs) ==
  /\ registeredWebContents = {}
  /\ webContents = [id \in WebContentsIds |-> NewWebContents]
  /\ process \in [type : {"renderer", "browser"}, platform : {"darwin", "linux"}]
  /\ hasGetUserDefault \in BOOLEAN
  /\ sysPrefs = prefs
  /\ value = <<>>
  /\ selectionStart = 0
  /\ selectionEnd = 0
  /\ listeners = {}
  /\ sets = <<>>
  /\ subs = <<>>
  /\ ipcListeners = <<>>
  /\ sentRegister = 0
  /\ replacementItems = [null |-> TRUE, items |-> <<>>]
  /\ prefChanges = 0
  /\ event = "none"
  /\ thrown = "none"
  /\ before = [value |-> <<>>, selectionEnd |-> 0]
  /\ edits = <<>>
  /\ nesting = 0
  /\ tested = NoTest

\* The state before the first call of a session that keeps no log.
InitState(prefs) == Constructed(prefs) /\ last = NoLast

Init == InitState(Preferences(SingleRule))

(***************************************************************************)
(* The element: its listeners and the host's editing primitive.            *)
(***************************************************************************)
\* The listener sets whose listener for the event type is registered, in
\* the order they were registered (listener set ids grow with time).
RECURSIVE idsFrom(_, _)
idsFrom(type, id) ==
  IF id > Len(sets) THEN <<>>
  ELSE (IF \E capture \in BOOLEAN : <<type, id, capture>> \in listeners
        THEN <<id>> ELSE <<>>) \o idsFrom(type, id + 1)

ListenerIds(type) == idsFrom(type, 1)

\* The state an event's listeners work on.
EventState ==
  [value |-> value, selectionStart |-> selectionStart,
   selectionEnd |-> selectionEnd, sets |-> sets,
   edits |-> <<>>, frames |-> <<>>, nesting |-> 0]

\* The host replaces the selection by the text and puts the caret after it
\* (typing, and document.execCommand('insertText', false, text)).
insertText(st, text) ==
  [st EXCEPT
     !.value = substring(st.value, 0, st.selectionStart) \o text
                 \o substring(st.value, st.selectionEnd, Len(st.value)),
     !.selectionStart = st.selectionStart + Len(text),
     !.selectionEnd = st.selectionStart + Len(text)]

getElementText(st) == st.value

setSelectionRange(st, startIndex, endIndex) ==
  IF st.value # <<>>
  THEN [st EXCEPT !.selectionStart = startIndex, !.selectionEnd = endIndex]
  ELSE st

(***************************************************************************)
(* addInputListener: the listeners of one listener set.                    *)
(***************************************************************************)
\* A listener set whose suppression flag is never set.
SetIgnoreEventNever(st, id, flag) == [st EXCEPT !.sets[id].ignoreEvent = FALSE]

SetIgnoreEvent(st, id, flag) == [st EXCEPT !.sets[id].ignoreEvent = flag]

SetComposition(st, id, flag) == [st EXCEPT !.sets[id].composition = flag]

\* An inputListener without the early return for a composition.
SkipsMatchingIgnoresComposition(set) == set.ignoreEvent

\* The early returns of inputListener.
SkipsMatching(set) == set.composition \/ set.ignoreEvent

\* some(replacementItems, (item) => item.match === match[0])
IsPrefixOfAnother(items, match) ==
  \E k \in 1..Len(items) : items[k].hasMatch /\ items[k].match = match.all

Occurrences(frames, id) == Cardinality({k \in 1..Len(frames) : frames[k] = id})

EnterLoop(st, id) ==
  LET frames == Append(st.frames, id)
      depth == Occurrences(frames, id)
  IN  [st EXCEPT !.frames = frames,
                 !.nesting = IF depth > @ THEN depth ELSE @]

LeaveLoop(st) == [st EXCEPT !.frames = SubSeq(@, 1, Len(@) - 1)]

Edit(st, id, k, match, selection, newText) ==
  [set |-> id, rule |-> k,
   startIndex |-> selection.startIndex, endIndex |-> selection.endIndex,
   left |-> match.left, right |-> match.right, newText |-> newText,
   ignoreEvent |-> st.sets[id].ignoreEvent,
   depth |-> Occurrences(st.frames, id)]

RECURSIVE dispatchInput(_, _, _)

\* replaceText(element, selection, newText): the edit raises an input event
\* on the element before it returns.
replaceText(st, id, k, match, selection, newText, fuel) ==
  LET selected == setSelectionRange(st, selection.startIndex, selection.endIndex)
      logged == [selected EXCEPT
                   !.edits = Append(@, Edit(st, id, k, match, selection, newText))]
  IN  IF fuel = 0 THEN insertText(logged, newText)
      ELSE dispatchInput(insertText(logged, newText), ListenerIds("input"), fuel - 1)

\* if (match && match.length === 3) { ... }
substitute(st, id, k, searchStartIndex, match, fuel) ==
  IF ~match.found THEN st
  ELSE IF IsPrefixOfAnother(st.sets[id].items, match) THEN st
  ELSE replaceText(st, id, k, match,
                   [startIndex |-> searchStartIndex + match.index,
                    endIndex |-> searchStartIndex + match.index + Len(match.all)],
                   formatReplacement(match, st.sets[id].items[k].replacement),
                   fuel)

\* A loop body that matches the whole buffer instead of the search window.
matchItemWholeBuffer(st, id, k, searchStartIndex, fuel) ==
  substitute(st, id, k, 0,
             StringMatch(getElementText(st), st.sets[id].items[k].regExp),
             fuel)

\* The body of the loop for the k-th item, the search window starting at
\* searchStartIndex.
matchItem(st, id, k, searchStartIndex, fuel) ==
  substitute(st, id, k, searchStartIndex,
             StringMatch(substring(getElementText(st), searchStartIndex,
                                   st.selectionEnd),
                         st.sets[id].items[k].regExp),
             fuel)

\* for (let {regExp, replacement} of replacementItems), from the k-th item.
RECURSIVE matchLoop(_, _, _, _)
matchLoop(st, id, k, fuel) ==
  IF k > Len(st.sets[id].items) THEN st
  ELSE matchLoop(matchItem(st, id, k,
                           lastIndexOfWhitespace(getElementText(st), st.selectionEnd),
                           fuel),
                 id, k + 1, fuel)

\* An input listener that runs its loop over the rules a second time.
inputListenerRunsTwice(st, id, fuel) ==
  IF SkipsMatching(st.sets[id]) THEN st
  ELSE LET entered == EnterLoop(SetIgnoreEvent(st, id, TRUE), id)
           done == matchLoop(matchLoop(entered, id, 1, fuel), id, 1, fuel)
       IN  SetIgnoreEvent(LeaveLoop(done), id, FALSE)

inputListener(st, id, fuel) ==
  IF SkipsMatching(st.sets[id]) THEN st
  ELSE LET entered == EnterLoop(SetIgnoreEvent(st, id, TRUE), id)
           done == matchLoop(entered, id, 1, fuel)
       IN  SetIgnoreEvent(LeaveLoop(done), id, FALSE)

\* The element's input listeners run in registration order.
dispatchInput(st, ids, fuel) ==
  IF ids = <<>> THEN st
  ELSE dispatchInput(inputListener(st, Head(ids), fuel), Tail(ids), fuel)

\* An isUndoRedoEvent that takes no Shift on macOS.
isUndoRedoEventNoShift(e) ==
  IF process.platform = "darwin"
  THEN e.metaKey /\ ~e.ctrlKey /\ ~e.altKey /\ ~e.shiftKey
         /\ (e.keyCode = keyCodes.z \/ e.keyCode = keyCodes.Z)
  ELSE e.ctrlKey /\ ~e.metaKey /\ ~e.shiftKey /\ ~e.altKey
         /\ (e.keyCode = keyCodes.z \/ e.keyCode = keyCodes.y)

isUndoRedoEvent(e) ==
  IF process.platform = "darwin"
  THEN e.metaKey /\ ~e.ctrlKey /\ ~e.altKey
         /\ (e.keyCode = keyCodes.z \/ e.keyCode = keyCodes.Z)
  ELSE e.ctrlKey /\ ~e.metaKey /\ ~e.shiftKey /\ ~e.altKey
         /\ (e.keyCode = keyCodes.z \/ e.keyCode = keyCodes.y)

\* An isBackspaceEvent that knows the backspace key only.
isBackspaceEventNoDelete(e) == e.keyCode = keyCodes.backspace

isBackspaceEvent(e) ==
  e.keyCode = keyCodes.backspace \/ e.keyCode = keyCodes.delete

\* A keydown listener that clears the suppression flag on any other key.
keyDownListenerClears(st, id, e) ==
  SetIgnoreEvent(st, id, isUndoRedoEvent(e) \/ isBackspaceEvent(e)
                           \/ st.sets[id].composition)

keyDownListener(st, id, e) ==
  IF isUndoRedoEvent(e) \/ isBackspaceEvent(e) \/ st.sets[id].composition
  THEN SetIgnoreEvent(st, id, TRUE)
  ELSE st

pasteListener(st, id) == SetIgnoreEvent(st, id, TRUE)

\* A keyup listener that leaves the suppression flag alone.
keyUpListenerKeeps(st, id) == st

keyUpListener(st, id) ==
  IF ~st.sets[id].composition THEN SetIgnoreEvent(st, id, FALSE) ELSE st

\* A compositionstart listener that sets the suppression flag instead.
compositionStartListenerSuppresses(st, id) == SetIgnoreEvent(st, id, TRUE)

compositionStartListener(st, id) == SetComposition(st, id, TRUE)

\* A compositionend listener that clears the flags and does not run the
\* input listener.
compositionEndListenerNoRun(st, id) ==
  SetIgnoreEvent(SetComposition(st, id, FALSE), id, FALSE)

compositionEndListener(st, id) ==
  inputListener(SetIgnoreEvent(SetComposition(st, id, FALSE), id, FALSE),
                id, StackLimit)

\* One event of the given type: each registered listener of that type runs.
RECURSIVE dispatch(_, _, _, _)
dispatch(st, type, ids, e) ==
  IF ids = <<>> THEN st
  ELSE LET id == Head(ids)
           after ==
             CASE type = "keydown" -> keyDownListener(st, id, e)
               [] type = "paste" -> pasteListener(st, id)
               [] type = "keyup" -> keyUpListener(st, id)
               [] type = "compositionstart" -> compositionStartListener(st, id)
               [] type = "compositionend" -> compositionEndListener(st, id)
               [] OTHER -> st
       IN  dispatch(after, type, Tail(ids), e)

(***************************************************************************)
(* Listener registration and the subscriptions that undo it.               *)
(***************************************************************************)
\* The state performTextSubstitution and the preference-changed handler
\* work on.
AttachState == [listeners |-> listeners, sets |-> sets, subs |-> subs]

\* element.addEventListener(type, listener, capture): a listener that is
\* registered with that type and capture flag is not registered again.
addEventListener(ls, type, id, capture) ==
  IF <<type, id, capture>> \in ls THEN ls ELSE ls \cup {<<type, id, capture>>}

\* element.removeEventListener(type, listener, capture): removes the
\* listener registered with that type and that capture flag, if any.
removeEventListener(ls, type, id, capture) == ls \ {<<type, id, capture>>}

\* A teardown whose removeEventListener call for the input listener does
\* not name the listener that was added.
TeardownCallsKeepInput ==
  << <<"compositionstart", TRUE>>, <<"compositionend", TRUE>>,
     <<"keydown", FALSE>>, <<"paste", FALSE>>, <<"keyup", FALSE>>,
     <<"input", TRUE>> >>

\* The removeEventListener calls of the teardown: <<type, capture>>; a call
\* without the third argument has capture false.
TeardownCalls ==
  << <<"compositionstart", TRUE>>, <<"compositionend", TRUE>>,
     <<"keydown", FALSE>>, <<"paste", FALSE>>, <<"keyup", FALSE>>,
     <<"input", FALSE>> >>

\* The addEventListener calls of addInputListener: <<type, capture>>.
AddCalls ==
  << <<"compositionstart", TRUE>>, <<"compositionend", TRUE>>,
     <<"keydown", TRUE>>, <<"paste", TRUE>>, <<"keyup", TRUE>>,
     <<"input", FALSE>> >>

RECURSIVE addListeners(_, _, _)
addListeners(ls, id, calls) ==
  IF calls = <<>> THEN ls
  ELSE addListeners(addEventListener(ls, Head(calls)[1], id, Head(calls)[2]),
                    id, Tail(calls))

RECURSIVE removeListeners(_, _, _)
removeListeners(ls, id, calls) ==
  IF calls = <<>> THEN ls
  ELSE removeListeners(removeEventListener(ls, Head(calls)[1], id, Head(calls)[2]),
                       id, Tail(calls))

\* addInputListener(element, replacementItems): a new closure with its two
\* flags, and its six listeners on the element.  The new listener set has
\* the id Len(sets) of the result.
addInputListener(as, owner, items) ==
  LET id == Len(as.sets) + 1
  IN  [as EXCEPT
         !.sets = Append(@, [owner |-> owner, items |-> items,
                             ignoreEvent |-> FALSE, composition |-> FALSE,
                             closed |-> FALSE]),
         !.listeners = addListeners(@, id, AddCalls)]

\* unsubscribe() of the Subscription addInputListener returned.
teardown(as, id) ==
  IF as.sets[id].closed THEN as
  ELSE [as EXCEPT
          !.sets[id].closed = TRUE,
          !.listeners = removeListeners(@, id, TeardownCalls)]

\* An add that does not unsubscribe the current subscription.
SerialSubscriptionAddKeepsCurrent(as, a, id) ==
  IF as.subs[a].closed
  THEN teardown([as EXCEPT !.subs[a].current = id], id)
  ELSE [as EXCEPT !.subs[a].current = id]

\* SerialSubscription.add(teardown); Subscription.add on a closed
\* subscription unsubscribes what it is given at once.
SerialSubscriptionAdd(as, a, id) ==
  LET current == as.subs[a].current
      removed == IF current # 0 THEN teardown(as, current) ELSE as
  IN  IF as.subs[a].closed
      THEN teardown([removed EXCEPT !.subs[a].current = id], id)
      ELSE [removed EXCEPT !.subs[a].current = id]

\* An assignDisposableToListener that takes a closed handle for an open one.
assignDisposableToListenerOnClosed(as, items, a) ==
  LET added == addInputListener(as, a, items)
      current == added.subs[a].current
      removed == IF current # 0 THEN teardown(added, current) ELSE added
  IN  [removed EXCEPT !.subs[a].current = Len(as.sets) + 1]

\* assignDisposableToListener(element, replacementItems, currentAttach) for
\* the handle a.
assignDisposableToListener(as, items, a) ==
  SerialSubscriptionAdd(addInputListener(as, a, items), a, Len(as.sets) + 1)

\* new SerialSubscription()
NewSerialSubscription(as) ==
  [as EXCEPT !.subs = Append(@, [closed |-> FALSE, current |-> 0])]

\* An unsubscribe() of a handle that leaves its current subscription alone.
SerialSubscriptionUnsubscribeKeepsCurrent(as, a) ==
  [as EXCEPT !.subs[a].closed = TRUE]

\* unsubscribe() of a handle.
SerialSubscriptionUnsubscribe(as, a) ==
  IF as.subs[a].closed THEN as
  ELSE LET closed == [as EXCEPT !.subs[a].closed = TRUE]
       IN  IF closed.subs[a].current # 0
           THEN teardown(closed, closed.subs[a].current)
           ELSE closed

\* JSON.stringify(items, regExpReplacer) and JSON.parse(s, regExpReviver):
\* a pattern travels as its source and flags, an undefined match is left out.
regExpReplacer(item) ==
  [hasMatch |-> item.hasMatch,
   match |-> IF item.hasMatch THEN item.match ELSE <<>>,
   regExp |-> [source |-> item.regExp, flags |-> "u"],
   replacement |-> item.replacement]

regExpReviver(item) ==
  [hasMatch |-> item.hasMatch,
   match |-> item.match,
   regExp |-> item.regExp.source,
   replacement |-> item.replacement]

Serialize(items) == [k \in 1..Len(items) |-> regExpReplacer(items[k])]
Deserialize(serializedItems) ==
  [k \in 1..Len(serializedItems) |-> regExpReviver(serializedItems[k])]

\* The checks without the platform check.
PreconditionErrorAnyPlatform(element) ==
  IF element # "input" THEN "Element is null or not an EventTarget"
  ELSE IF process.type # "renderer" THEN "Not in an Electron renderer context"
  ELSE IF ~hasGetUserDefault THEN "Electron is not supported"
  ELSE "none"

\* The checks at the head of performTextSubstitution, in their order.
PreconditionError(element) ==
  IF element # "input" THEN "Element is null or not an EventTarget"
  ELSE IF process.type # "renderer" THEN "Not in an Electron renderer context"
  ELSE IF process.platform # "darwin" THEN "Only supported on macOS"
  ELSE IF ~hasGetUserDefault THEN "Electron is not supported"
  ELSE "none"

(***************************************************************************)
(* Operations.                                                             *)
(***************************************************************************)
NoEvent ==
  /\ before' = [value |-> value', selectionEnd |-> selectionEnd']
  /\ edits' = <<>>
  /\ nesting' = 0
  /\ last' = Logged("none", NoKey)
  /\ UNCHANGED tested

\* The element's listeners and the handles after an operation.
SetAttachState(as) ==
  /\ listeners' = as.listeners
  /\ sets' = as.sets
  /\ subs' = as.subs

\* A choice of the rule set that reads the system preferences whenever no
\* overrides are given.
cachedReplacementItemsAlwaysReads(given, preferenceOverrides) ==
  IF given
  THEN [null |-> FALSE, items |-> getReplacementItems(preferenceOverrides)]
  ELSE [null |-> FALSE, items |-> getReplacementItems(sysPrefs)]

\* The module's replacementItems after the if of performTextSubstitution.
cachedReplacementItems(given, preferenceOverrides) ==
  IF given
  THEN [null |-> FALSE, items |-> getReplacementItems(preferenceOverrides)]
  ELSE IF replacementItems.null
  THEN [null |-> FALSE, items |-> getReplacementItems(sysPrefs)]
  ELSE replacementItems

\* performTextSubstitution(element, preferenceOverrides)
performTextSubstitution(element, given, preferenceOverrides) ==
  /\ event' = "none"
  /\ thrown' = PreconditionError(element)
  /\ UNCHANGED <<envVars, sysPrefs, value, selectionStart, selectionEnd,
                 prefChanges>>
  /\ IF thrown' # "none"
     THEN UNCHANGED <<attachVars, sets>>
     ELSE /\ sentRegister' = sentRegister + 1
          /\ replacementItems' = cachedReplacementItems(given, preferenceOverrides)
          /\ SetAttachState(assignDisposableToListener(
                              NewSerialSubscription(AttachState),
                              replacementItems'.items, Len(subs) + 1))
          /\ ipcListeners' = Append(ipcListeners, Len(subs) + 1)
  /\ NoEvent

\* unsubscribe() on the handle performTextSubstitution returned.
Unsubscribe(a) ==
  /\ a \in 1..Len(subs)
  /\ ~subs[a].closed
  /\ SetAttachState(SerialSubscriptionUnsubscribe(AttachState, a))
  /\ event' = "none"
  /\ thrown' = "none"
  /\ UNCHANGED <<envVars, sysPrefs, value, selectionStart, selectionEnd,
                 ipcListeners, sentRegister, replacementItems, prefChanges>>
  /\ NoEvent

\* The preference-changed message: every listener registered on
\* ipcRenderer revives the rule set and re-attaches its element.
RECURSIVE reattachAll(_, _, _)
reattachAll(as, items, handles) ==
  IF handles = <<>> THEN as
  ELSE reattachAll(assignDisposableToListener(as, items, Head(handles)),
                   items, Tail(handles))

PreferenceChanged(prefs) ==
  /\ sentRegister > 0
  /\ prefChanges < MaxPrefChanges
  /\ prefChanges' = prefChanges + 1
  /\ sysPrefs' = prefs
  /\ replacementItems' =
       [null |-> FALSE,
        items |-> Deserialize(Serialize(getReplacementItems(prefs)))]
  /\ SetAttachState(reattachAll(AttachState, replacementItems'.items, ipcListeners))
  /\ event' = "none"
  /\ thrown' = "none"
  /\ UNCHANGED <<envVars, value, selectionStart, selectionEnd, ipcListeners,
                 sentRegister>>
  /\ NoEvent

\* The user changes the text preferences of the system; the main process
\* has not sent its message yet.
SystemPreferencesChange(prefs) ==
  /\ prefs # sysPrefs
  /\ sysPrefs' = prefs
  /\ event' = "none"
  /\ thrown' = "none"
  /\ UNCHANGED <<envVars, value, selectionStart, selectionEnd, attachVars,
                 sets, prefChanges>>
  /\ NoEvent

\* What the listeners of an event with the key leave behind.
CommitKey(st, name, start, e) ==
  /\ value' = st.value
  /\ selectionStart' = st.selectionStart
  /\ selectionEnd' = st.selectionEnd
  /\ sets' = st.sets
  /\ edits' = st.edits
  /\ nesting' = st.nesting
  /\ before' = [value |-> start.value, selectionEnd |-> start.selectionEnd]
  /\ event' = IF name \in {"input", "compositionend"} THEN name ELSE "none"
  /\ thrown' = "none"
  /\ last' = Logged(name, e)
  /\ UNCHANGED <<envVars, sysPrefs, attachVars, prefChanges, tested>>

\* What an event's listeners leave behind.
Commit(st, name, start) == CommitKey(st, name, start, NoKey)

\* The host writes the text at the caret and raises the input event.
Write(text) ==
  LET written == insertText(EventState, text)
  IN  Commit(dispatchInput(written, ListenerIds("input"), StackLimit),
             "input", written)

\* An input event that inserts n characters, the buffer kept within limit.
Input(n, limit) ==
  /\ Len(value) - (selectionEnd - selectionStart) + n <= limit
  /\ \E text \in [1..n -> TypedChars] : Write(text)

\* An input event that inserts one of the characters, the buffer kept
\* within limit.
InputChar(chars, limit) ==
  /\ Len(value) - (selectionEnd - selectionStart) + 1 <= limit
  /\ \E c \in chars : Write(<<c>>)

\* The host deletes the character before the caret and raises the input
\* event.
DeleteBackward ==
  /\ selectionEnd > 0
  /\ LET written == insertText([EventState EXCEPT !.selectionStart = selectionEnd - 1],
                               <<>>)
     IN  Commit(dispatchInput(written, ListenerIds("input"), StackLimit),
                "input", written)

\* The user moves the caret.
SetCaret(offset) ==
  /\ offset \in 0..Len(value)
  /\ offset # selectionEnd
  /\ Commit([EventState EXCEPT !.selectionStart = offset, !.selectionEnd = offset],
            "caret", [value |-> value, selectionEnd |-> offset])

KeyDown(e) ==
  CommitKey(dispatch(EventState, "keydown", ListenerIds("keydown"), e),
            "keydown", EventState, e)

KeyUp ==
  Commit(dispatch(EventState, "keyup", ListenerIds("keyup"), NoKey),
         "keyup", EventState)

Paste ==
  Commit(dispatch(EventState, "paste", ListenerIds("paste"), NoKey),
         "paste", EventState)

CompositionStart ==
  Commit(dispatch(EventState, "compositionstart", ListenerIds("compositionstart"),
                  NoKey),
         "compositionstart", EventState)

CompositionEnd ==
  Commit(dispatch(EventState, "compositionend", ListenerIds("compositionend"),
                  NoKey),
         "compositionend", EventState)

\* candidate.match(regExp) and candidate.replace(regExp, `$1${replacement}$2`)
\* with the pattern getSubstitutionRegExp compiles for the trigger.
Match(match, replacement, candidate) ==
  /\ tested' =
       [applied |-> TRUE,
        match |-> match,
        candidate |-> candidate,
        result |-> StringMatch(candidate,
                               getSubstitutionRegExp(match, replacement).regExp),
        output |-> scrubInputString(candidate,
                                    <<getSubstitutionRegExp(match, replacement)>>),
        key |-> NoKey, undoRedo |-> FALSE, backspace |-> FALSE]
  /\ UNCHANGED <<envVars, sysPrefs, value, selectionStart, selectionEnd,
                 attachVars, sets, prefChanges, event, thrown, before, edits,
                 nesting, last>>

\* assertRegExReplacements(replacementItems, [{input}]): each rule of the
\* list applied once to the text, in order.
assertRegExReplacements(items, input) ==
  /\ tested' =
       [applied |-> TRUE,
        match |-> <<>>,
        candidate |-> input,
        result |-> NoMatch,
        output |-> scrubInputString(input, items),
        key |-> NoKey, undoRedo |-> FALSE, backspace |-> FALSE]
  /\ UNCHANGED <<envVars, sysPrefs, value, selectionStart, selectionEnd,
                 attachVars, sets, prefChanges, event, thrown, before, edits,
                 nesting, last>>

\* The element after the characters of the text were typed one by one, an
\* input event after each.
RECURSIVE typeCharacters(_, _)
typeCharacters(st, text) ==
  IF text = <<>> THEN st
  ELSE typeCharacters(
         dispatchInput(insertText([st EXCEPT !.edits = <<>>, !.nesting = 0],
                                  <<Head(text)>>),
                       ListenerIds("input"), StackLimit),
         Tail(text))

\* typeText(input, text): the text typed character by character; the
\* last of its input events is the one recorded.
typeText(text) ==
  LET earlier == typeCharacters(EventState, SubSeq(text, 1, Len(text) - 1))
      written == insertText([earlier EXCEPT !.edits = <<>>, !.nesting = 0],
                            <<text[Len(text)]>>)
      st == dispatchInput(written, ListenerIds("input"), StackLimit)
  IN  /\ value' = st.value
      /\ selectionStart' = st.selectionStart
      /\ selectionEnd' = st.selectionEnd
      /\ sets' = st.sets
      /\ edits' = st.edits
      /\ nesting' = st.nesting
      /\ before' = [value |-> written.value, selectionEnd |-> written.selectionEnd]
      /\ event' = "input"
      /\ thrown' = "none"
      /\ last' = Logged("input", NoKey)
      /\ tested' = [applied |-> TRUE, match |-> <<>>, candidate |-> text,
                    result |-> NoMatch, output |-> st.value,
                    key |-> NoKey, undoRedo |-> FALSE, backspace |-> FALSE]
      /\ UNCHANGED <<envVars, sysPrefs, attachVars, prefChanges>>

\* isUndoRedoEvent(e) and isBackspaceEvent(e) called on a keydown event.
classifyKey(e) ==
  /\ tested' = [NoTest EXCEPT !.applied = TRUE, !.key = e,
                               !.undoRedo = isUndoRedoEvent(e),
                               !.backspace = isBackspaceEvent(e)]
  /\ UNCHANGED <<envVars, sysPrefs, value, selectionStart, selectionEnd,
                 attachVars, sets, prefChanges, event, thrown, before, edits,
                 nesting, last>>

\* What a step of the main process leaves alone: the renderer's state.
rendererVars ==
  <<process, hasGetUserDefault, sysPrefs, value, selectionStart, selectionEnd,
    listeners, sets, subs, ipcListeners, sentRegister, replacementItems,
    prefChanges, event, thrown, before, edits, nesting, tested, last>>

\* The handler of the register message: ipcMain.on(register..., ({sender})).
registerRenderer(id) ==
  /\ ~webContents[id].destroyed
  /\ ~webContents[id].crashed
  /\ registeredWebContents' = registeredWebContents \cup {id}
  /\ webContents' = [webContents EXCEPT ![id].asked = TRUE]
  /\ UNCHANGED rendererVars

\* The handler of the unregister message a window sends when it unloads.
unregisterRenderer(id) ==
  /\ ~webContents[id].destroyed
  /\ ~webContents[id].crashed
  /\ webContents[id].asked
  /\ registeredWebContents' = registeredWebContents \ {id}
  /\ webContents' = [webContents EXCEPT ![id].left = TRUE]
  /\ UNCHANGED rendererVars

\* The host destroys a WebContents, or its renderer crashes or is reloaded
\* after a crash.
Destroy(id) ==
  /\ ~webContents[id].destroyed
  /\ webContents' = [webContents EXCEPT ![id].destroyed = TRUE]
  /\ UNCHANGED <<rendererVars, registeredWebContents>>

Crash(id) ==
  /\ ~webContents[id].destroyed
  /\ ~webContents[id].crashed
  /\ webContents' = [webContents EXCEPT ![id].crashed = TRUE]
  /\ UNCHANGED <<rendererVars, registeredWebContents>>

Reload(id) ==
  /\ ~webContents[id].destroyed
  /\ webContents[id].crashed
  /\ webContents' = [webContents EXCEPT ![id].crashed = FALSE]
  /\ UNCHANGED <<rendererVars, registeredWebContents>>

readSystemTextPreferences == sysPrefs

\* A test that takes a crashed WebContents for a live one.
IsGoneIgnoresCrash(sender) == sender.destroyed

\* sender.isDestroyed() || sender.isCrashed()
IsGone(sender) == sender.destroyed \/ sender.crashed

\* notifyAllListeners(): the callback of onPreferenceChanged.
notifyAllListeners ==
  LET serializedItems == Serialize(getReplacementItems(readSystemTextPreferences))
  IN  /\ \A id \in WebContentsIds : Len(webContents[id].received) < MaxNotified
      /\ registeredWebContents' =
           {id \in registeredWebContents : ~IsGone(webContents[id])}
      /\ webContents' =
           [id \in WebContentsIds |->
              IF id \in registeredWebContents /\ ~IsGone(webContents[id])
              THEN [webContents[id] EXCEPT !.received = Append(@, serializedItems)]
              ELSE webContents[id]]
      /\ UNCHANGED rendererVars

\* Attach sessions: attaching, re-attaching and unsubscribing in any
\* process, over short texts.
Next ==
  \/ \E element \in ElementArgs, prefs \in AttachPrefs :
       /\ PreconditionError(element) = "none" => Len(subs) < MaxAttach
       /\ performTextSubstitution(element, TRUE, prefs)
  \/ \E element \in ElementArgs :
       /\ PreconditionError(element) = "none" => Len(subs) < MaxAttach
       /\ performTextSubstitution(element, FALSE, sysPrefs)
  \/ \E a \in 1..MaxAttach : Unsubscribe(a)
  \/ \E prefs \in AttachPrefs : PreferenceChanged(prefs)
  \/ Input(1, MaxText)
  \/ Paste
  \/ KeyUp

Spec == Init /\ [][Next]_vars

\* Calls: performTextSubstitution called with any argument in any process,
\* the handles unsubscribed, and the host typing in between.
NextCalls ==
  \/ \E element \in ElementArgs, prefs \in AttachPrefs :
       /\ PreconditionError(element) = "none" => Len(subs) < MaxAttach
       /\ performTextSubstitution(element, TRUE, prefs)
  \/ \E element \in ElementArgs :
       /\ PreconditionError(element) = "none" => Len(subs) < MaxAttach
       /\ performTextSubstitution(element, FALSE, sysPrefs)
  \/ \E a \in 1..MaxAttach : Unsubscribe(a)
  \/ Input(1, MaxText)

SpecCalls == Init /\ [][NextCalls]_vars

\* Typing sessions: a renderer on macOS whose element is attached once,
\* over longer texts and with every event of the element.
InitTyping ==
  /\ Init
  /\ process = [type |-> "renderer", platform |-> "darwin"]
  /\ hasGetUserDefault

NextTyping ==
  \/ \E prefs \in PrefChoices :
       /\ subs = <<>>
       /\ performTextSubstitution("input", TRUE, prefs)
  \/ Unsubscribe(1)
  \/ \E n \in 1..MaxInput : Input(n, MaxLen)
  \/ DeleteBackward
  \/ \E offset \in 0..MaxLen : SetCaret(offset)
  \/ \E e \in KeyEvents : KeyDown(e)
  \/ KeyUp
  \/ Paste
  \/ CompositionStart
  \/ CompositionEnd

SpecTyping == InitTyping /\ [][NextTyping]_vars

\* Preference sessions: a renderer on macOS whose element is attached, the
\* preferences changing and the host typing in between.
NextReattach ==
  \/ /\ Len(subs) < MaxAttach
     /\ performTextSubstitution("input", FALSE, sysPrefs)
  \/ \E a \in 1..MaxAttach : Unsubscribe(a)
  \/ \E prefs \in AttachPrefs : PreferenceChanged(prefs)
  \/ Input(1, MaxText)

SpecReattach == InitTyping /\ [][NextReattach]_vars

\* Rule-set sessions: a renderer on macOS with any of the system
\* preferences, its element attached once and the host typing.
InitBuild ==
  /\ \E prefs \in BuildPrefs : InitState(prefs)
  /\ process = [type |-> "renderer", platform |-> "darwin"]
  /\ hasGetUserDefault

NextBuild ==
  \/ /\ subs = <<>>
     /\ performTextSubstitution("input", FALSE, sysPrefs)
  \/ /\ subs # <<>>
     /\ Input(1, MaxText)

SpecBuild == InitBuild /\ [][NextBuild]_vars

\* Quote sessions: a renderer on macOS whose element is attached with smart
\* quotes and no user entry, the host typing one character at a time.
NextQuotes ==
  \/ \E prefs \in QuotePrefs :
       /\ subs = <<>>
       /\ performTextSubstitution("input", TRUE, prefs)
  \/ /\ subs # <<>>
     /\ InputChar(QuoteChars, MaxLen)

SpecQuotes == InitTyping /\ [][NextQuotes]_vars

\* Dash sessions: the smart-dash rules applied to one short text.
NextDashes ==
  /\ ~tested.applied
  /\ \E input \in UNION {[1..n -> DashChars] : n \in 0..MaxDashText} :
       assertRegExReplacements(getSmartDashesRegExp, input)

SpecDashes == InitTyping /\ [][NextDashes]_vars

\* Scrub sessions: the smart rules the preferences enable, quotes before
\* dashes, applied to one short text.
InitScrub ==
  /\ \E prefs \in SmartPrefs : InitState(prefs)
  /\ process = [type |-> "renderer", platform |-> "darwin"]
  /\ hasGetUserDefault

NextScrub ==
  /\ ~tested.applied
  /\ \E input \in UNION {[1..n -> ScrubChars] : n \in 0..MaxScrubText} :
       assertRegExReplacements(additionalReplacements(sysPrefs), input)

SpecScrub == InitScrub /\ [][NextScrub]_vars

\* Main-process sessions: the main process on macOS after
\* listenForPreferenceChanges, its WebContents registering, unregistering,
\* crashing and being destroyed, and the preferences changing.
InitMain ==
  /\ Init
  /\ process = [type |-> "browser", platform |-> "darwin"]
  /\ hasGetUserDefault

NextMain ==
  \/ \E id \in WebContentsIds : registerRenderer(id)
  \/ \E id \in WebContentsIds : unregisterRenderer(id)
  \/ \E id \in WebContentsIds : Destroy(id)
  \/ \E id \in WebContentsIds : Crash(id)
  \/ \E id \in WebContentsIds : Reload(id)
  \/ notifyAllListeners

SpecMain == InitMain /\ [][NextMain]_vars

\* Cache sessions: a renderer on macOS attaching its element with and
\* without overrides, while the system preferences change and the message
\* of the main process about a change arrives later or not at all.
CachePrefs == AttachPrefs \cup {Preferences(EraseRules)}

NextCache ==
  \/ \E prefs \in AttachPrefs :
       /\ Len(subs) < MaxAttach
       /\ performTextSubstitution("input", TRUE, prefs)
  \/ /\ Len(subs) < MaxAttach
     /\ performTextSubstitution("input", FALSE, sysPrefs)
  \/ \E prefs \in CachePrefs : SystemPreferencesChange(prefs)
  \/ \E prefs \in CachePrefs : PreferenceChanged(prefs)

SpecCache == InitTyping /\ [][NextCache]_vars

\* Key classification: one keydown event classified in a process on any
\* platform.
NextClassify ==
  /\ ~tested.applied
  /\ \E e \in KeyCombinations : classifyKey(e)

SpecClassify == Init /\ [][NextClassify]_vars

\* Pattern sessions: the pattern of one short trigger tried on one short
\* text.
NextMatch ==
  /\ ~tested.applied
  /\ \E match \in Texts(0, MaxTrigger), candidate \in Texts(0, MaxCandidate) :
       Match(match, <<"X">>, candidate)

SpecMatch == InitTyping /\ [][NextMatch]_vars

\* Key sessions: a renderer on macOS whose element is attached once, with
\* every key combination and every event of the element, over short texts;
\* the last event is logged.
InitKeys ==
  /\ Constructed(Preferences(SingleRule))
  /\ process = [type |-> "renderer", platform |-> "darwin"]
  /\ hasGetUserDefault
  /\ last = NoneYet

NextKeys ==
  \/ /\ subs = <<>>
     /\ performTextSubstitution("input", FALSE, sysPrefs)
  \/ Unsubscribe(1)
  \/ InputChar(TypedChars, MaxText)
  \/ \E e \in KeyCombinations : KeyDown(e)
  \/ KeyUp
  \/ Paste
  \/ CompositionStart
  \/ CompositionEnd

SpecKeys == InitKeys /\ [][NextKeys]_vars

\* Caret sessions: a renderer on macOS whose element is attached once with
\* one rule, the host typing one character at a time at a caret the user
\* moves, with pastes and key releases in between.
NextCaret ==
  \/ /\ subs = <<>>
     /\ performTextSubstitution("input", FALSE, sysPrefs)
  \/ /\ subs # <<>>
     /\ \/ InputChar(TypedChars, MaxLen)
        \/ \E offset \in 0..MaxLen : SetCaret(offset)
        \/ Paste
        \/ KeyUp
        \/ CompositionEnd

SpecCaret == InitTyping /\ [][NextCaret]_vars

\* Spaced sessions: a renderer on macOS whose element is attached with a
\* rule whose trigger holds a whitespace, the host typing one character at a
\* time at a caret the user moves, with pastes and key releases in between.
NextSpaced ==
  \/ \E prefs \in SpacedPrefs :
       /\ subs = <<>>
       /\ performTextSubstitution("input", TRUE, prefs)
  \/ /\ subs # <<>>
     /\ \/ InputChar(TypedChars, MaxLen)
        \/ \E offset \in 0..MaxLen : SetCaret(offset)
        \/ Paste
        \/ KeyUp
        \/ CompositionEnd

SpecSpaced == InitTyping /\ [][NextSpaced]_vars

\* Prefix sessions: a renderer on macOS whose element is attached with two
\* rules, one trigger a prefix of the other, and one text typed character
\* by character into the empty element.
NextPrefix ==
  \/ \E prefs \in PrefixPrefs :
       /\ subs = <<>>
       /\ performTextSubstitution("input", TRUE, prefs)
  \/ /\ subs # <<>>
     /\ ~tested.applied
     /\ \E text \in UNION {[1..n -> TypedChars] : n \in 1..MaxTyped} : typeText(text)

SpecPrefix == InitTyping /\ [][NextPrefix]_vars

(***************************************************************************)
(* Properties.                                                             *)
(***************************************************************************)
\* The text before the caret, and the text from the caret on, when the
\* last event's listeners started.
BeforeCaret == substring(before.value, 0, before.selectionEnd)
AfterCaret == substring(before.value, before.selectionEnd, Len(before.value))

EndsWith(s, t) ==
  Len(t) <= Len(s) /\ substring(s, Len(s) - Len(t), Len(s)) = t

\* The text ends in t, and t starts the text or follows a whitespace.
EndsInWord(s, t) ==
  /\ EndsWith(s, t)
  /\ Len(s) = Len(t) \/ s[Len(s) - Len(t)] \in WhitespaceChars

\* A trigger without whitespace that neither starts nor ends with a
\* boundary character.
PlainTrigger(t) ==
  /\ t # <<>>
  /\ \A k \in 1..Len(t) : t[k] \notin WhitespaceChars
  /\ ~startsWithWordBoundary(t)
  /\ ~endsWithWordBoundary(t)

\* The suppression flag of the listener set is set, or it is composing.
SuppressedOrComposing(set) == set.ignoreEvent \/ set.composition

\* The listener sets whose input listener is registered and that are
\* neither suppressed nor composing.
Matching ==
  SelectSeq(ListenerIds("input"), LAMBDA id : ~SuppressedOrComposing(sets[id]))

AllUnsubscribed == subs # <<>> /\ \A a \in 1..Len(subs) : subs[a].closed

\* The buffer after the span [startIndex, endIndex) of the text the host
\* wrote was replaced by newText.
Spliced(startIndex, endIndex, newText) ==
  substring(before.value, 0, startIndex) \o newText
    \o substring(before.value, endIndex, Len(before.value))

\* The last character of the text, when it is a boundary character.
LastBoundary(s) ==
  IF s # <<>> /\ s[Len(s)] \in wordBoundary THEN {s[Len(s)]} ELSE {}

C2_NoSubstitutionAfterUnsubscribe ==
  /\ \A i \in 1..Len(edits) : ~subs[sets[edits[i].set].owner].closed
  /\ AllUnsubscribed =>
       /\ edits = <<>>
       /\ value = before.value
       /\ selectionEnd = before.selectionEnd

\* An input event left a trigger and its boundary character in front of the
\* caret of an unsubscribed element whose flags would allow matching.
C2_Witness ==
  /\ event = "input"
  /\ AllUnsubscribed
  /\ ~SuppressedOrComposing(sets[1])
  /\ \E k \in 1..Len(sets[1].items) : sets[1].items[k].match = <<"a">>
  /\ value = <<"a", " ">>
  /\ selectionEnd = 2

\* C3 as stated: no listener of a listener set that was torn down remains
\* registered on the element.
C3_TeardownRemovesAllListeners ==
  \A id \in 1..Len(sets) :
    sets[id].closed =>
      ~\E type \in EventTypes, capture \in BOOLEAN : <<type, id, capture>> \in listeners

\* C4 as stated: each call registers one preference-changed listener, and
\* once every handle is unsubscribed none is registered.
C4_IpcListenersUnhooked ==
  /\ Len(ipcListeners) <= Len(subs)
  /\ AllUnsubscribed => Len(ipcListeners) = 0

\* A call that must fail: a bad element, or a process that is not a
\* renderer on macOS with getUserDefault.
Unsupported(element) ==
  \/ element \in {"null", "object"}
  \/ process.type # "renderer"
  \/ process.platform # "darwin"
  \/ ~hasGetUserDefault

\* C5: a call of performTextSubstitution with a bad element or in an
\* unsupported process throws, and adds no listener to the element, registers
\* no IPC listener, sends no register message and leaves the cached rule set
\* as it was.
C5_FailsWithoutEffect ==
  [][\A element \in ElementArgs, given \in BOOLEAN, prefs \in AttachPrefs :
       (performTextSubstitution(element, given, prefs) /\ Unsupported(element))
         => /\ thrown' # "none"
            /\ UNCHANGED <<listeners, sets, subs, ipcListeners, sentRegister,
                           replacementItems>>]_vars

\* A call with a bad element failed on an element that is attached.
C5_Witness ==
  /\ thrown = "Element is null or not an EventTarget"
  /\ sentRegister > 0
  /\ listeners # {}

\* C6 as stated: an input event changes no character before the start of
\* the search window of the text the host wrote, and none after the caret.
C6_EditsStayInWindow ==
  event = "input" =>
    LET searchStartIndex == lastIndexOfWhitespace(before.value, before.selectionEnd)
    IN  /\ substring(value, 0, searchStartIndex)
             = substring(before.value, 0, searchStartIndex)
        /\ EndsWith(value, AfterCaret)

\* C7: an input event changes neither the buffer nor the caret through a
\* listener set whose suppression flag is set or that is composing: such a
\* set issues no edit and keeps its flags, and when every listener set with
\* an input listener is in that state the buffer and the caret stay what the
\* host wrote.
C7_SuppressedInputDoesNothing ==
  [][event' = "input" =>
       /\ \A id \in 1..Len(sets) :
            SuppressedOrComposing(sets[id]) =>
              /\ \A i \in 1..Len(edits') : edits'[i].set # id
              /\ sets'[id] = sets[id]
       /\ (\A id \in 1..Len(sets) : SuppressedOrComposing(sets[id])) =>
            /\ value' = before'.value
            /\ selectionEnd' = before'.selectionEnd
            /\ edits' = <<>>]_vars

\* An input event left a trigger and its boundary character in front of the
\* caret while the attached listener set was composing and not suppressed.
C7_Witness ==
  /\ event = "input"
  /\ sets # <<>>
  /\ ~sets[1].closed
  /\ sets[1].composition
  /\ ~sets[1].ignoreEvent
  /\ value = <<"a", " ">>
  /\ selectionEnd = 2
  /\ edits = <<>>

\* C8: the matching loop of a listener set is never entered while it is
\* running: every edit is issued with the suppression flag of its listener
\* set set and from the outermost matching loop of that set, and the flag is
\* clear again when the handler has returned.
C8_NoReentry ==
  /\ nesting <= 1
  /\ \A i \in 1..Len(edits) :
       /\ edits[i].ignoreEvent
       /\ edits[i].depth = 1
       /\ ~sets[edits[i].set].ignoreEvent

\* An input event in which the listener issued two edits.
C8_Witness ==
  /\ event = "input"
  /\ Len(edits) = 2
  /\ nesting = 1

\* C9 as stated: one listener set performs at most one substitution in one
\* event.
C9_AtMostOneSubstitution ==
  \A id \in 1..Len(sets) :
    Cardinality({i \in 1..Len(edits) : edits[i].set = id}) <= 1

\* C10 as stated: the text an edit of a listener set replaces never
\* contains a character of the replacement its previous edit inserted.
C10_ReplacementNotRematched ==
  \A i \in 1..(Len(edits) - 1) :
    LET first == edits[i]
        second == edits[i + 1]
        insertedFrom == first.startIndex + Len(first.left)
        insertedTo == first.startIndex + Len(first.newText) - Len(first.right)
        replacedFrom == second.startIndex + Len(second.left)
        replacedTo == second.endIndex - Len(second.right)
    IN  first.set = second.set =>
          \/ replacedTo <= insertedFrom
          \/ insertedTo <= replacedFrom

\* The text starts, or ends, with a boundary character.
LeadingBoundary(text) == text # <<>> /\ Head(text) \in wordBoundary
TrailingBoundary(text) == text # <<>> /\ text[Len(text)] \in wordBoundary

\* The trigger occurs in the text at offset i (0-based).
OccursAt(text, trigger, i) ==
  /\ i + Len(trigger) <= Len(text)
  /\ \A k \in 1..Len(trigger) : text[i + k] = trigger[k]

\* The character at offset i of the text is one of the set.
CharIn(text, i, chars) == i >= 0 /\ i < Len(text) /\ text[i + 1] \in chars

\* C14: the pattern of a trigger that neither starts nor ends with a
\* boundary character matches a text exactly when the text holds an
\* occurrence of the trigger that starts the text or follows a boundary
\* character, and that a boundary character follows.
C14_MatchesBoundedOccurrence ==
  (tested.applied /\ ~LeadingBoundary(tested.match) /\ ~TrailingBoundary(tested.match)) =>
    ( tested.result.found <=>
        \E i \in 0..Len(tested.candidate) :
          /\ OccursAt(tested.candidate, tested.match, i)
          /\ i = 0 \/ CharIn(tested.candidate, i - 1, wordBoundary)
          /\ CharIn(tested.candidate, i + Len(tested.match), wordBoundary) )

\* The pattern of the trigger a matched the trigger between two spaces.
C14_Witness ==
  /\ tested.match = <<"a">>
  /\ tested.candidate = <<" ", "a", " ">>
  /\ tested.result.found
  /\ tested.output = <<" ", "X", " ">>

\* C15: the pattern of a trigger that starts with a boundary character
\* matches wherever the trigger occurs with its right boundary after it,
\* a word character before the occurrence included, and captures an empty
\* left group.
C15_NoLeftBoundaryRequired ==
  (tested.applied /\ LeadingBoundary(tested.match)) =>
    /\ tested.result.found <=>
         \E i \in 0..Len(tested.candidate) :
           /\ OccursAt(tested.candidate, tested.match, i)
           /\ CharIn(tested.candidate, i + Len(tested.match),
                     IF TrailingBoundary(tested.match)
                     THEN WordChars \cup wordBoundary ELSE wordBoundary)
    /\ tested.result.found => tested.result.left = <<>>

\* The pattern of the trigger .a matched directly after a word character.
C15_Witness ==
  /\ tested.match = <<".", "a">>
  /\ tested.candidate = <<"b", ".", "a", " ">>
  /\ tested.result.found
  /\ tested.result.index = 1
  /\ tested.output = <<"b", "X", " ">>

\* The listener sets the attach a installed, oldest first, and the one a
\* preference-changed message installed last.
SetsOf(a) == SelectSeq([id \in 1..Len(sets) |-> id], LAMBDA id : sets[id].owner = a)
Reattached(a) == Len(SetsOf(a)) > 1
NewestSet(a) == SetsOf(a)[Len(SetsOf(a))]

\* Some listener of the listener set is registered on the element.
Registered(id) ==
  \E type \in EventTypes, capture \in BOOLEAN : <<type, id, capture>> \in listeners

\* The rule set the last preference-changed message delivered.
DeliveredItems == getReplacementItems(sysPrefs)

\* C11: once an attach has handled a preference-changed message, the only
\* listener set of that attach whose input listener is registered is the
\* newest one, it holds the rule set of the last message in full, and every
\* edit of that attach in an event is issued by it and from that rule set.
C11_NewRuleSetInFull ==
  \A a \in 1..Len(subs) :
    Reattached(a) =>
      /\ \A k \in 1..Len(ListenerIds("input")) :
           sets[ListenerIds("input")[k]].owner = a =>
             /\ ListenerIds("input")[k] = NewestSet(a)
             /\ sets[NewestSet(a)].items = DeliveredItems
      /\ \A i \in 1..Len(edits) :
           sets[edits[i].set].owner = a =>
             /\ edits[i].set = NewestSet(a)
             /\ edits[i].rule \in 1..Len(DeliveredItems)
             /\ edits[i].newText =
                  edits[i].left \o DeliveredItems[edits[i].rule].replacement
                    \o edits[i].right

\* After a message that replaced the rule a to b by the rules a to b and
\* b to a, an input event replaced a by b and then b by a.
C11_Witness ==
  /\ event = "input"
  /\ prefChanges > 0
  /\ Reattached(1)
  /\ Len(sets[1].items) = 1
  /\ Len(edits) = 2
  /\ edits[2].set = NewestSet(1)
  /\ edits[2].rule = 2
  /\ before.value = <<"a", " ">>
  /\ value = <<"a", " ">>

\* C12 as stated: no two listener sets of one attach have listeners
\* registered on the element at the same time.
C12_OldTornDownBeforeNew ==
  \A a \in 1..Len(subs) :
    \A i, j \in 1..Len(SetsOf(a)) :
      i < j => ~(Registered(SetsOf(a)[i]) /\ Registered(SetsOf(a)[j]))

\* C13 as stated: the element carries at most one listener per event type
\* for one attach.
C13_OneListenerPerType ==
  \A a \in 1..Len(subs), type \in EventTypes :
    Cardinality({id \in 1..Len(sets) :
                   /\ sets[id].owner = a
                   /\ \E capture \in BOOLEAN : <<type, id, capture>> \in listeners}) <= 1

\* The entries of the system preferences, and the positions of those that
\* are not disabled and whose trigger differs from the replacement.
Entries == sysPrefs.substitutions
KeptEntries ==
  {k \in 1..Len(Entries) :
     Entries[k].on # "false" /\ Entries[k].replace # Entries[k].with}

\* The cached rule set once it is built, and its matchers of user entries.
Built == ~replacementItems.null
Items == replacementItems.items
UserItems == {j \in 1..Len(Items) : Items[j].hasMatch}

QuoteCount == IF sysPrefs.useSmartQuotes THEN 5 ELSE 0
DashCount == IF sysPrefs.useSmartDashes THEN 3 ELSE 0

\* A text no smart-quote or smart-dash rule can change.
NothingToScrub(text) ==
  \A k \in 1..Len(text) : text[k] \notin {"DQUOTE", "'", "-", "."}

\* C16: the rule set is the matchers of the kept entries by non-increasing
\* trigger length, entries of equal length in their original order, then
\* the five smart-quote matchers iff quotes are enabled, then the three
\* smart-dash matchers iff dashes are enabled.
C16_RuleSetOrder ==
  Built =>
    LET n == Cardinality(KeptEntries)
    IN  /\ Len(Items) = n + QuoteCount + DashCount
        /\ \E f \in [1..n -> KeptEntries] :
             /\ \A j \in 1..n :
                  /\ Items[j].hasMatch
                  /\ Items[j].match = Entries[f[j]].replace
                  /\ NothingToScrub(Entries[f[j]].with) =>
                       Items[j].replacement = Entries[f[j]].with
             /\ \A i, j \in 1..n :
                  i < j =>
                    \/ Len(Entries[f[i]].replace) > Len(Entries[f[j]].replace)
                    \/ /\ Len(Entries[f[i]].replace) = Len(Entries[f[j]].replace)
                       /\ f[i] < f[j]
        /\ \A i \in 1..QuoteCount : Items[n + i] = getSmartQuotesRegExp[i]
        /\ \A i \in 1..DashCount :
             Items[n + QuoteCount + i] = getSmartDashesRegExp[i]

\* A rule set of ten matchers whose longer trigger, given second, is first.
C16_Witness ==
  /\ Built
  /\ Entries = <<Entry(<<"a">>, <<"c">>, "undefined"),
                 Entry(<<"a", ".">>, <<"b">>, "true")>>
  /\ Len(Items) = 10
  /\ Items[1].match = <<"a", ".">>
  /\ Items[2].match = <<"a">>
  /\ Items[3] = getSmartQuotesRegExp[1]
  /\ Items[8] = getSmartDashesRegExp[1]

\* C17: the rule set holds as many matchers of a trigger as there are kept
\* entries with that trigger, a kept entry being one that is not disabled and
\* whose trigger differs from its replacement; every edit of a user matcher
\* is the edit of a kept entry's trigger, and when no entry is kept and no
\* smart rule is enabled an input event changes nothing.
C17_KeptEntriesOnly ==
  Built =>
    /\ \A k \in 1..Len(Entries) :
         Cardinality({j \in UserItems : Items[j].match = Entries[k].replace})
           = Cardinality({i \in KeptEntries : Entries[i].replace = Entries[k].replace})
    /\ Cardinality(UserItems) = Cardinality(KeptEntries)
    /\ \A i \in 1..Len(edits) :
         edits[i].rule \in UserItems =>
           \E k \in KeptEntries : Entries[k].replace = Items[edits[i].rule].match
    /\ (KeptEntries = {} /\ QuoteCount + DashCount = 0) =>
         edits = <<>> /\ value = before.value

\* The trigger of a disabled entry and of one that replaces it by itself
\* was typed with a space after it, and stayed.
C17_Witness ==
  /\ Built
  /\ sets # <<>>
  /\ Entries = <<Entry(<<"a">>, <<"b">>, "false"), Entry(<<"a">>, <<"a">>, "true")>>
  /\ Items = <<>>
  /\ event = "input"
  /\ before.value = <<"a", " ">>
  /\ value = <<"a", " ">>

\* C18 as stated: no matcher of the rule set has an empty trigger, and no
\* edit is issued by such a matcher.
C18_EmptyTriggerRejected ==
  Built =>
    /\ \A j \in UserItems : Items[j].match # <<>>
    /\ \A i \in 1..Len(edits) :
         edits[i].rule \in UserItems => Items[edits[i].rule].match # <<>>

\* The text passed once through each of the rules, in their order.
RECURSIVE PassedThrough(_, _)
PassedThrough(text, rules) ==
  IF rules = <<>> THEN text
  ELSE PassedThrough(ReplaceFirst(text, Head(rules)), Tail(rules))

EnabledSmartRules ==
  (IF sysPrefs.useSmartQuotes THEN getSmartQuotesRegExp ELSE <<>>)
    \o (IF sysPrefs.useSmartDashes THEN getSmartDashesRegExp ELSE <<>>)

\* C19: every user matcher holds the replacement of a kept entry with its
\* trigger, passed once through the enabled smart rules in their order and
\* unchanged when none is enabled, and each kept entry has such a matcher;
\* the text the first edit of a user matcher inserts in an input event is
\* that converted replacement between the two captured boundaries.
C19_ReplacementScrubbedOnce ==
  Built =>
    /\ \A j \in UserItems :
         \E k \in KeptEntries :
           /\ Items[j].match = Entries[k].replace
           /\ Items[j].replacement = PassedThrough(Entries[k].with, EnabledSmartRules)
           /\ EnabledSmartRules = <<>> => Items[j].replacement = Entries[k].with
    /\ \A k \in KeptEntries :
         \E j \in UserItems :
           /\ Items[j].match = Entries[k].replace
           /\ Items[j].replacement = PassedThrough(Entries[k].with, EnabledSmartRules)
    /\ (event = "input" /\ edits # <<>> /\ edits[1].rule \in UserItems) =>
         \E k \in KeptEntries :
           /\ Entries[k].replace = Items[edits[1].rule].match
           /\ edits[1].newText =
                edits[1].left
                  \o PassedThrough(Entries[k].with, EnabledSmartRules)
                  \o edits[1].right

\* With quotes and dashes enabled, typing the trigger and a space put the
\* replacement with a curly quote and an em dash into the buffer in that
\* input event.
C19_Witness ==
  /\ Built
  /\ Entries = <<Entry(<<"a">>, <<"DQUOTE", "-", "-", "b">>, "true")>>
  /\ sysPrefs.useSmartQuotes
  /\ sysPrefs.useSmartDashes
  /\ Items[1].replacement = <<openingDoubleQuote, emDash, "b">>
  /\ event = "input"
  /\ before.value = <<"a", " ">>
  /\ Len(edits) = 1
  /\ value = <<openingDoubleQuote, emDash, "b", " ">>

\* C20: after an input event that typed one character behind the text, the
\* straight double quote right before that character has become the closing
\* quote when the character before it lies inside the search window, which
\* holds no whitespace before the quote, and the opening quote otherwise;
\* a straight double quote typed by the event is unchanged, and no other
\* straight double quote is left in the buffer.
C20_QuoteReplacedAtNextInput ==
  (event = "input" /\ Matching # <<>>) =>
    LET typed == before.value
        n == before.selectionEnd
        searchStartIndex == lastIndexOfWhitespace(typed, n)
    IN  /\ Len(value) = Len(typed)
        /\ (n >= 2 /\ typed[n - 1] = "DQUOTE") =>
             value[n - 1] =
               IF n - 3 >= searchStartIndex /\ typed[n - 2] \notin WhitespaceChars
               THEN closingDoubleQuote ELSE openingDoubleQuote
        /\ typed[n] = "DQUOTE" => value[n] = "DQUOTE"
        /\ \A k \in 1..(Len(value) - 1) : value[k] # "DQUOTE"

\* A quote after a word became the closing quote when the space after it
\* was typed, the quote before the word having become the opening quote.
C20_Witness ==
  /\ event = "input"
  /\ before.value = <<openingDoubleQuote, "a", "DQUOTE", " ">>
  /\ value = <<openingDoubleQuote, "a", closingDoubleQuote, " ">>

\* A run of exactly n hyphens starts at position i of the text and a
\* character follows it.
RunAt(text, i, n) ==
  /\ i >= 1 /\ i + n <= Len(text)
  /\ \A k \in 0..(n - 1) : text[i + k] = "-"
  /\ i = 1 \/ text[i - 1] # "-"
  /\ text[i + n] # "-"

Runs(text, n) == {i \in 1..Len(text) : RunAt(text, i, n)}

\* The text with its leftmost such run, if any, replaced by one em dash.
LeftmostRunReplaced(text, n) ==
  IF Runs(text, n) = {} THEN text
  ELSE LET i == CHOOSE x \in Runs(text, n) : \A y \in Runs(text, n) : x <= y
       IN  SubSeq(text, 1, i - 1) \o <<emDash>> \o SubSeq(text, i + n, Len(text))

EmDashes(text) == Cardinality({k \in 1..Len(text) : text[k] = emDash})

AfterReplacement(edit) ==
  edit.startIndex + Len(edit.newText) - Len(edit.right)

\* C22 as stated: after an input event with one edit whose replaced span is
\* followed by text, the caret lies immediately after the inserted
\* replacement, not after the right boundary text inserted with it.
C22_CaretAfterReplacement ==
  ( /\ event = "input"
    /\ Len(edits) = 1
    /\ edits[1].endIndex < Len(before.value) )
  => selectionEnd = AfterReplacement(edits[1])

\* C23 as stated: after an input event in which edits were issued, as many
\* characters lie between the caret and the end of the buffer as when the
\* event arrived.
C23_CaretDistancePreserved ==
  (event = "input" /\ edits # <<>>)
  => Len(value) - selectionEnd = Len(before.value) - before.selectionEnd

\* No rule of any listener set matches the search window of the text with
\* the caret at the offset.
NoRuleMatches(text, caret) ==
  \A id \in 1..Len(sets) : \A k \in 1..Len(sets[id].items) :
    ~StringMatch(substring(text, lastIndexOfWhitespace(text, caret), caret),
                 sets[id].items[k].regExp).found

\* C24: when no rule matches the search window, a run of the matching loop
\* (by an input or compositionend event) leaves the buffer and the caret
\* offsets unchanged and issues no edit, and one more run of the input
\* listener on the buffer it left changes nothing and issues no edit either.
C24_NoMatchNoOp ==
  /\ ( /\ event \in {"input", "compositionend"}
       /\ NoRuleMatches(before.value, before.selectionEnd) )
     => /\ value = before.value
        /\ selectionStart = before.selectionEnd
        /\ selectionEnd = before.selectionEnd
        /\ edits = <<>>
  /\ NoRuleMatches(value, selectionEnd)
     => \A id \in 1..Len(sets) :
          LET again == inputListener(EventState, id, StackLimit)
          IN  /\ again.value = value
              /\ again.selectionStart = selectionStart
              /\ again.selectionEnd = selectionEnd
              /\ again.edits = <<>>

\* The input listener ran on a buffer that holds a trigger and a boundary
\* character outside the search window, and none inside it.
C24_Witness ==
  /\ event = "input"
  /\ Matching # <<>>
  /\ \E k \in 1..Len(sets[Head(Matching)].items) :
       sets[Head(Matching)].items[k].match = <<"a">>
  /\ before.value = <<"a", " ", "a">>
  /\ before.selectionEnd = 3
  /\ NoRuleMatches(before.value, before.selectionEnd)
  /\ value = <<"a", " ", "a">>
  /\ edits = <<>>

\* The listener sets whose listener for the event type is registered.
Listening(type) ==
  {id \in 1..Len(sets) : \E capture \in BOOLEAN : <<type, id, capture>> \in listeners}

\* On macOS: Cmd+Z and Shift+Cmd+Z, without Ctrl or Alt; the Z key is a key
\* of either key code the table of key codes gives for it.
UndoRedoCombination(e) ==
  /\ e.metaKey
  /\ ~e.ctrlKey
  /\ ~e.altKey
  /\ e.keyCode \in {90, 122}

BackspaceOrDelete(e) == e.keyCode \in {8, 46}

C26_KeyUpClearsSuppression ==
  [][ /\ last'.name = "keyup" =>
           \A id \in Listening("keyup") :
             ~sets[id].composition =>
               /\ ~sets'[id].ignoreEvent
               /\ ~sets'[id].composition
      /\ (last.name = "keyup" /\ last'.name = "input") =>
           \A id \in Listening("input") :
             ~last.was[id].composition =>
               /\ nesting' = 1
               /\ ~NoRuleMatches(before'.value, before'.selectionEnd) =>
                    /\ edits' # <<>>
                    /\ edits'[1].set = id ]_vars

\* A keyup event cleared the suppression flag of a listener set that was not
\* composing, a trigger in front of the caret.
C26_Witness ==
  /\ last.name = "keyup"
  /\ 1 \in Listening("keyup")
  /\ 1 \in Listening("input")
  /\ last.was[1].ignoreEvent
  /\ ~last.was[1].composition
  /\ ~sets[1].ignoreEvent
  /\ value = <<"a">>
  /\ selectionEnd = 1

\* C27: a compositionend event clears the composition flag and the
\* suppression flag of its listener set and runs the matching loop once, at
\* once: the flags are clear when the handler has returned, the loop was
\* entered without nesting, and when a rule matches the search window the
\* set has issued the edit that substitutes it.
C27_CompositionEndRunsApplier ==
  last.name = "compositionend" =>
    \A id \in Listening("compositionend") :
      /\ ~sets[id].composition
      /\ ~sets[id].ignoreEvent
      /\ nesting = 1
      /\ ~NoRuleMatches(before.value, before.selectionEnd) =>
           /\ Len(edits) = 1
           /\ edits[1].set = id
           /\ edits[1].depth = 1
           /\ value = Spliced(edits[1].startIndex, edits[1].endIndex, edits[1].newText)
           /\ value # before.value

\* A trigger and a boundary character typed during a composition, with a
\* keydown in it, were substituted by the compositionend event.
C27_Witness ==
  /\ last.name = "compositionend"
  /\ 1 \in Listening("compositionend")
  /\ last.was[1].composition
  /\ last.was[1].ignoreEvent
  /\ before.value = <<"a", " ">>
  /\ before.selectionEnd = 2
  /\ value = <<"b", " ">>
  /\ Len(edits) = 1

\* C28: a compositionstart event makes its listener set composing, whether
\* the set was idle or suppressed; a keyup event leaves the suppression flag
\* of a composing set as it was; and a set that was composing when an
\* operation started is still composing after it unless the operation was
\* a compositionend event.
C28_OnlyCompositionEndLeavesComposing ==
  /\ last.name = "compositionstart" =>
       \A id \in Listening("compositionstart") :
         /\ sets[id].composition
         /\ sets[id].ignoreEvent = last.was[id].ignoreEvent
  /\ last.name = "keyup" =>
       \A id \in Listening("keyup") :
         last.was[id].composition => sets[id].ignoreEvent = last.was[id].ignoreEvent
  /\ \A id \in 1..Len(last.was) :
       (last.was[id].composition /\ ~sets[id].composition)
         => last.name = "compositionend"

\* A compositionstart event made a suppressed listener set composing.
C28_Witness ==
  /\ last.name = "compositionstart"
  /\ 1 \in Listening("compositionstart")
  /\ last.was[1].ignoreEvent
  /\ ~last.was[1].composition
  /\ sets[1].composition
  /\ sets[1].ignoreEvent

\* The text is a prefix of the other, and a shorter one.
IsPrefix(s, t) == Len(s) <= Len(t) /\ SubSeq(t, 1, Len(s)) = s
IsStrictPrefix(s, t) == Len(s) < Len(t) /\ IsPrefix(s, t)

\* C29 as stated: in an input event, a rule that matches the search window
\* and whose trigger is a strict prefix of a longer trigger of the rule set
\* which the text typed from the start of the trigger to the caret can still
\* complete issues no edit.
C29_PrefixMatchDeferred ==
  (event = "input" /\ Matching # <<>>) =>
    LET items == sets[Head(Matching)].items
        searchStartIndex == lastIndexOfWhitespace(before.value, before.selectionEnd)
        window == substring(before.value, searchStartIndex, before.selectionEnd)
    IN  \A k \in 1..Len(items) : \A j \in 1..Len(items) :
          LET match == StringMatch(window, items[k].regExp)
              soFar == substring(window, match.index + Len(match.left), Len(window))
          IN  ( /\ match.found
                /\ items[k].hasMatch
                /\ items[j].hasMatch
                /\ IsStrictPrefix(items[k].match, items[j].match)
                /\ IsPrefix(soFar, items[j].match) )
              => \A i \in 1..Len(edits) : edits[i].rule # k

\* C30 as stated: when the text typed ends with the longer of two triggers,
\* typed as a word and followed by a boundary character, the buffer ends
\* with the replacement of the longer rule and that boundary character.
C30_LongerTriggerWins ==
  (tested.applied /\ sets # <<>>) =>
    LET items == sets[1].items
    IN  \A k \in 1..Len(items) : \A j \in 1..Len(items) : \A b \in wordBoundary :
          ( /\ items[k].hasMatch
            /\ items[j].hasMatch
            /\ IsStrictPrefix(items[k].match, items[j].match)
            /\ EndsInWord(tested.candidate, items[j].match \o <<b>>) )
          => EndsWith(tested.output, items[j].replacement \o <<b>>)

\* The text ends with a run of exactly n of the character.
TrailingRun(text, c, n) ==
  /\ Len(text) >= n
  /\ \A k \in (Len(text) - n + 1)..Len(text) : text[k] = c
  /\ Len(text) = n \/ text[Len(text) - n] # c

\* C31: the smart rules never change the last character of a text: the
\* result is not empty when the text is not and ends with the text's last
\* character, and a straight quote, a run of two or three hyphens and a run
\* of three periods at the very end of the text are still there.
C31_LastCharacterKept ==
  (tested.applied /\ tested.candidate # <<>>) =>
    LET input == tested.candidate
        output == tested.output
    IN  /\ output # <<>>
        /\ output[Len(output)] = input[Len(input)]
        /\ \A n \in {2, 3} :
             TrailingRun(input, "-", n) => TrailingRun(output, "-", n)
        /\ TrailingRun(input, ".", 3) => TrailingRun(output, ".", 3)

\* Both kinds of rules enabled: the quote before a word was replaced and the
\* two hyphens that end the text were not.
C31_Witness ==
  /\ tested.applied
  /\ sysPrefs.useSmartQuotes
  /\ sysPrefs.useSmartDashes
  /\ tested.candidate = <<"DQUOTE", "a", "-", "-">>
  /\ tested.output = <<openingDoubleQuote, "a", "-", "-">>

\* C32: an input event ends with every matching loop left: no listener set
\* enters its loop while it is running it, so the events its own edits raise
\* cause no matching by it and the nesting of edits is bounded by the number
\* of listener sets; and the one listener set of an element attached once
\* tests each rule once, in order: it issues at most as many edits as it has
\* rules, each by a later rule than the edit before, also when a replacement
\* is the trigger of another rule.
C32_HandlerTerminates ==
  /\ nesting <= 1
  /\ \A i \in 1..Len(edits) :
       /\ edits[i].depth = 1
       /\ edits[i].ignoreEvent
  /\ \A id \in Listening("input") :
       Listening("input") = {id} =>
         /\ Len(edits) <= Len(sets[id].items)
         /\ \A i \in 1..Len(edits) : edits[i].set = id
         /\ \A i \in 1..(Len(edits) - 1) : edits[i].rule < edits[i + 1].rule

\* The one listener set of the element, with the rules a to b and b to a,
\* replaced a by b and then b by a in one input event, and stopped.
C32_Witness ==
  /\ event = "input"
  /\ \E id \in Listening("input") :
       /\ Listening("input") = {id}
       /\ Len(sets[id].items) = 2
       /\ sets[id].items[1].replacement = sets[id].items[2].match
       /\ sets[id].items[2].replacement = sets[id].items[1].match
       /\ ~sets[id].ignoreEvent
  /\ Len(edits) = 2
  /\ edits[1].rule = 1
  /\ edits[2].rule = 2
  /\ nesting = 1

\* A WebContents that is neither destroyed nor crashed.
Live(id) == ~webContents[id].destroyed /\ ~webContents[id].crashed

\* C33: one run of notifyAllListeners sends the message once to every
\* registered WebContents that is neither destroyed nor crashed and to no
\* other, and afterwards the registry holds exactly the registered
\* WebContents that were neither destroyed nor crashed; a WebContents that
\* was not in the registry, for one because it had unregistered, is sent
\* nothing.
C33_NotifiesLiveRegistered ==
  [][notifyAllListeners =>
       \A id \in WebContentsIds :
         /\ Len(webContents'[id].received)
              = Len(webContents[id].received)
                  + (IF id \in registeredWebContents /\ Live(id) THEN 1 ELSE 0)
         /\ id \in registeredWebContents'
              <=> (id \in registeredWebContents /\ Live(id))]_vars

\* After one preference change: a registered WebContents has the message, a
\* crashed one that had registered was removed without one, the registry
\* holding the first only.
C33_Witness ==
  /\ Len(webContents[1].received) = 1
  /\ registeredWebContents = {1}
  /\ webContents[2].asked
  /\ ~webContents[2].left
  /\ webContents[2].crashed
  /\ webContents[2].received = <<>>

\* C34: isUndoRedoEvent holds on macOS exactly for meta without ctrl and
\* alt and key code 90 or 122, shift held or not, and elsewhere exactly for
\* ctrl without meta, shift and alt and key code 90 or 89; isBackspaceEvent
\* holds exactly for the key codes 8 and 46.
C34_KeyClassification ==
  (tested.applied /\ tested.key # NoKey) =>
    LET e == tested.key
    IN  /\ tested.undoRedo
             <=> IF process.platform = "darwin"
                 THEN e.metaKey /\ ~e.ctrlKey /\ ~e.altKey /\ e.keyCode \in {90, 122}
                 ELSE e.ctrlKey /\ ~e.metaKey /\ ~e.shiftKey /\ ~e.altKey
                        /\ e.keyCode \in {90, 89}
        /\ tested.backspace <=> e.keyCode \in {8, 46}

\* Shift+Cmd+Z was classified as undo/redo on macOS.
C34_Witness ==
  /\ process.platform = "darwin"
  /\ tested.applied
  /\ tested.key = KeyEvent(90, TRUE, FALSE, TRUE, FALSE)
  /\ tested.undoRedo
  /\ ~tested.backspace

\* The listener sets addInputListener made for the handle a.
AddedTo(a) == {id \in 1..Len(sets) : sets[id].owner = a}

\* C35: a SerialSubscription holds at most one current inner subscription,
\* the one added last: every subscription added to it earlier has been
\* unsubscribed, and once the SerialSubscription is unsubscribed its current
\* one has been unsubscribed too.
C35_OneCurrentSubscription ==
  \A a \in 1..Len(subs) :
    /\ AddedTo(a) # {} =>
         /\ subs[a].current \in AddedTo(a)
         /\ \A id \in AddedTo(a) : id <= subs[a].current
    /\ \A id \in AddedTo(a) : id # subs[a].current => sets[id].closed
    /\ (subs[a].closed /\ subs[a].current # 0) => sets[subs[a].current].closed

\* Of two handles, the open one was given a second subscription, which is
\* current and open while its first is unsubscribed, and the unsubscribed one
\* has its current subscription unsubscribed.
C35_Witness ==
  \E a, b \in 1..Len(subs) :
    /\ ~subs[a].closed
    /\ Cardinality(AddedTo(a)) = 2
    /\ ~sets[subs[a].current].closed
    /\ \E id \in AddedTo(a) : id < subs[a].current /\ sets[id].closed
    /\ subs[b].closed
    /\ subs[b].current # 0
    /\ sets[subs[b].current].closed

\* C36: once a handle is unsubscribed, no step, a preference-changed message
\* and an input event included, leaves an input listener of that handle on
\* its element or has a listener set of that handle edit the text.
C36_UnsubscribedStaysDisabled ==
  [][\A a \in 1..Len(subs) :
       subs[a].closed =>
         /\ \A id \in Listening("input")' : sets'[id].owner # a
         /\ \A i \in 1..Len(edits') : sets'[edits'[i].set].owner # a]_vars

\* The only handle was unsubscribed, a preference-changed message made a
\* second listener set for it, and an input event that completed the
\* trigger of a rule of that set found no input listener and edited nothing.
C36_Witness ==
  /\ Len(subs) = 1
  /\ subs[1].closed
  /\ prefChanges = 1
  /\ Cardinality(AddedTo(1)) = 2
  /\ event = "input"
  /\ Listening("input") = {}
  /\ edits = <<>>
  /\ ~NoRuleMatches(value, selectionEnd)

\* C37: the suppression flag of a listener set, once set, is cleared by no
\* event but a keyup outside a composition or a compositionend: it stays
\* set across input and keydown events, and an input event that finds it
\* set edits nothing and leaves the text as typed.
C37_SuppressionPersists ==
  \A id \in 1..Len(last.was) :
    last.was[id].ignoreEvent =>
      /\ ~sets[id].ignoreEvent
           => \/ last.name = "keyup" /\ ~last.was[id].composition
              \/ last.name = "compositionend"
      /\ last.name \in {"input", "keydown"} => sets[id].ignoreEvent
      /\ last.name = "input"
           => /\ edits = <<>>
              /\ value = before.value
              /\ selectionEnd = before.selectionEnd

\* With the suppression flag set and no composition, the boundary character
\* that completes a trigger was typed into the attached element: the input
\* listener is on the element, the trigger stands, the flag is still set.
C37_Witness ==
  /\ last.name = "input"
  /\ Listening("input") = {1}
  /\ last.was[1].ignoreEvent
  /\ ~last.was[1].composition
  /\ ~NoRuleMatches(value, selectionEnd)
  /\ edits = <<>>
  /\ sets[1].ignoreEvent

\* C38: a call of performTextSubstitution without overrides that succeeds
\* attaches its element with the cached rule set and leaves the cache as it
\* is when a rule set is cached, whatever the system preferences are now,
\* and builds the rule set from the system preferences, and caches it, only
\* when none is cached.
C38_CachedRuleSetReused ==
  [][(performTextSubstitution("input", FALSE, sysPrefs) /\ thrown' = "none")
       => LET attached == sets'[Len(sets')].items
          IN  /\ Len(sets') = Len(sets) + 1
              /\ IF replacementItems.null
                 THEN /\ attached = getReplacementItems(sysPrefs)
                      /\ replacementItems' = [null |-> FALSE, items |-> attached]
                 ELSE /\ attached = replacementItems.items
                      /\ replacementItems' = replacementItems]_vars

\* The second handle was attached after a preference-changed message with
\* a rule set that no call with overrides builds, and holds that rule set,
\* which is the cached one and not the one of the system preferences.
C38_Witness ==
  /\ Len(subs) = 2
  /\ prefChanges = 1
  /\ AddedTo(2) = {Len(sets)}
  /\ ~replacementItems.null
  /\ sets[Len(sets)].items = replacementItems.items
  /\ replacementItems.items = getReplacementItems(Preferences(EraseRules))
  /\ replacementItems.items # getReplacementItems(sysPrefs)

\* Non-whitespace characters and then whitespace characters, either run
\* possibly empty.
WordThenWhitespace(w) ==
  \A j, k \in 1..Len(w) :
    (j < k /\ w[j] \in WhitespaceChars) => w[k] \in WhitespaceChars

\* The trigger holds a whitespace character and a non-whitespace character
\* somewhere after it.
SpacedTrigger(match) == ~WordThenWhitespace(match)

\* C39: the search window, of the text an event's listeners found and of
\* the text they left, is non-whitespace characters followed by whitespace
\* characters, and no edit is made by a rule whose trigger holds a whitespace
\* character followed later by a non-whitespace character.
C39_SpacedTriggerNeverFires ==
  /\ WordThenWhitespace(substring(before.value,
                                  lastIndexOfWhitespace(before.value, before.selectionEnd),
                                  before.selectionEnd))
  /\ WordThenWhitespace(substring(value, lastIndexOfWhitespace(value, selectionEnd),
                                  selectionEnd))
  /\ \A i \in 1..Len(edits) :
       ~SpacedTrigger(sets[edits[i].set].items[edits[i].rule].match)

\* The boundary character after the trigger "a a" was typed at the end of
\* the text, the listener set neither suppressed nor composing: the pattern
\* of the rule matches the text, and the text was left as typed.
C39_Witness ==
  /\ event = "input"
  /\ Listening("input") = {1}
  /\ ~sets[1].ignoreEvent
  /\ ~sets[1].composition
  /\ SpacedTrigger(sets[1].items[1].match)
  /\ before.value = sets[1].items[1].match \o <<".">>
  /\ before.selectionEnd = Len(before.value)
  /\ StringMatch(before.value, sets[1].items[1].regExp).found
  /\ value = before.value
  /\ edits = <<>>

\* C40 as stated: scrubbing is idempotent: a second pass of the enabled smart
\* rules over the result of the first changes nothing.
C40_ScrubIdempotent ==
  tested.applied =>
    scrubInputString(tested.output, additionalReplacements(sysPrefs)) = tested.output

====
